---------------------------- MODULE Spec2Model ----------------------------
(*
  Model of the Google Maps business scraper:
    - GoogleMapsScraper (src/src/core/scraper.ts): one searchBusinesses
      session, its card loop and the assembly of one Business record; two
      calls overlapping on one scraper; calls one after the other, then
      close();
    - the BrowserManager (src/src/core/browser.ts): launch, contexts,
      close(), and the request-interception handler;
    - the configuration (src/src/core/config.ts) and the delays drawn from
      it (src/src/services/antiDetectionService.ts);
    - the lead finder's searchBusinessesInCity (src/unnamed/part_001);
    - the Record model (createEmptyBusiness, calculateDataCompleteness);
    - the selector tables (src/src/utils/selectors.ts).

  JavaScript strings are sequences of one-character strings; JavaScript
  values are tagged records, so that undefined, null, '' and 0 stay
  distinct.
*)
EXTENDS Integers, Sequences, FiniteSets, TLC

-----------------------------------------------------------------------------
(* Bounds *)

MaxAddrLen == 5      \* longest raw address text drawn for the address element
MaxCards   == 3      \* most result cards the page holds after scrolling
MaxLimit   == 3      \* largest limit argument of searchBusinesses
MaxCalls   == 2      \* calls of calculateDataCompleteness on one record
MaxHeight  == 2      \* largest scrollHeight the results container reports
MaxLabelTokens == 4  \* most tokens a rating aria-label is made of
MaxOverlapCards == 2 \* most cards on the page of each of two overlapping calls
MaxPlaces  == 1      \* most places a text search of the lead finder returns

-----------------------------------------------------------------------------
(* State *)

VARIABLES
  \* one searchBusinesses call on a GoogleMapsScraper
  pc,              \* where the call stands
  limit,           \* its limit argument
  cards,           \* the cards page.$$ found, in DOM order
  businessCards,   \* the cards extractBusinessCards returned
  index,           \* index of the card being processed (0-based)
  results,         \* the ScrapeResult[] being accumulated
  origin,          \* history: the card each entry of results was produced for
  trace,           \* history: what was done to which card, in order
  search,          \* history of the results wait: [timedOut, indicator]
  pending,         \* the failure caught by waitForSearchResults, if any
  scroll,          \* scrollResults' locals [previousHeight, currentHeight, scrollAttempts]
  currentPage,     \* this.currentPage: "null" or "page"
  pageOpen,        \* is the page of this call open
  thrown,          \* the error searchBusinesses rejected with, "none" if none
  clock,           \* logical time of the card loop: one tick per awaited operation
  \* one detail panel under the Business Assembler
  panel,           \* the page extractBusinessData reads
  assembled,       \* what extractBusinessData returned (Undefined before the call)
  \* the Record model
  record,          \* a Business handed to calculateDataCompleteness
  score,           \* the values calculateDataCompleteness returned for it, in order
  \* searchBusinesses calls overlapping on one GoogleMapsScraper
  sessions,        \* the locals of each call; currentPage above is the field they share
  \* the lead finder
  finder,          \* the locals of one searchBusinessesInCity call
  displayed,       \* the card whose detail panel the page of the call shows, 0 for none
  \* the configuration
  env,             \* process.env when config.ts is imported
  config,          \* the config it exports
  drawn,           \* history: the delays computed from config.rateLimiting
  \* the BrowserManager
  manager,         \* its fields browser and contexts, and whether the browser is connected
  closing,         \* where BrowserManager.close() stands
  shutdown,        \* where GoogleMapsScraper.close() stands
  \* one intercepted request
  route            \* the request and how the handler resolved it

configVars == << env, config, drawn >>
managerVars == << manager, closing, shutdown >>

sessionVars == << pc, limit, cards, businessCards, index, results, origin, trace, search,
                  pending, scroll, currentPage, pageOpen, thrown, clock >>
vars == << pc, limit, cards, businessCards, index, results, origin, trace, search, pending,
           scroll, currentPage, pageOpen, thrown, clock, panel, assembled, record, score,
           sessions, finder, displayed, configVars, managerVars, route >>

-----------------------------------------------------------------------------
(* JavaScript values *)

Undefined == [t |-> "undefined"]
Null      == [t |-> "null"]
Raise     == [t |-> "raise"]          \* the read rejects / throws
Str(s)    == [t |-> "string", s |-> s]
Num(n)    == [t |-> "number", n |-> n]
Obj(o)    == [t |-> "object", o |-> o]

IsStr(v) == v.t = "string"

\* JavaScript truthiness of the values used here (ToBoolean)
Truthy(v) ==
  CASE v.t = "undefined" -> FALSE
    [] v.t = "null"      -> FALSE
    [] v.t = "string"    -> v.s # << >>
    [] v.t = "number"    -> v.n # 0
    [] OTHER             -> TRUE

\* a || b
OrElse(a, b) == IF Truthy(a) THEN a ELSE b

-----------------------------------------------------------------------------
(* Strings *)

Space  == " "
Comma  == ","
Digits == {"0", "1", "2", "3", "4", "5", "6", "7", "8", "9"}

IsWhite(c) == c = Space

RECURSIVE TrimStart(_)
TrimStart(s) ==
  IF s = << >> THEN << >>
  ELSE IF IsWhite(Head(s)) THEN TrimStart(Tail(s)) ELSE s

RECURSIVE TrimEnd(_)
TrimEnd(s) ==
  IF s = << >> THEN << >>
  ELSE IF IsWhite(s[Len(s)]) THEN TrimEnd(SubSeq(s, 1, Len(s) - 1)) ELSE s

\* String.prototype.trim
Trim(s) == TrimEnd(TrimStart(s))

\* String.prototype.split(','): the segments between the commas, in order;
\* a string without comma gives one segment, the empty string gives <<''>>.
RECURSIVE SplitFrom(_, _)
SplitFrom(s, cur) ==
  IF s = << >> THEN << cur >>
  ELSE IF Head(s) = Comma THEN << cur >> \o SplitFrom(Tail(s), << >>)
  ELSE SplitFrom(Tail(s), Append(cur, Head(s)))

Split(s) == SplitFrom(s, << >>)

\* all strings over alphabet A of length at most n
RECURSIVE StringsUpTo(_, _)
StringsUpTo(A, n) ==
  IF n = 0 THEN { << >> }
  ELSE LET shorter == StringsUpTo(A, n - 1)
       IN  shorter \cup { Append(s, c) : s \in shorter, c \in A }


-----------------------------------------------------------------------------
(* Selector tables (src/src/utils/selectors.ts) *)

SELECTORS ==
  [ search |->
      [ searchBox        |-> "input#searchboxinput",
        resultsContainer |-> "div[role=\"feed\"]",
        noResultsMessage |-> "div.section-no-result" ],
    searchResults |->
      [ businessCard |-> "div[role=\"article\"]" ],
    details |->
      [ panel        |-> "div[role=\"main\"][aria-label]",
        businessName |-> "h1[class*=\"fontHeadlineLarge\"]",
        rating       |-> "div[class*=\"fontBodyMedium\"] span[role=\"img\"][aria-label*=\"stars\"]",
        reviewCount  |-> "button[aria-label*=\"reviews\"]",
        priceLevel   |-> "span[aria-label*=\"Price\"]",
        businessType |-> "button[class*=\"fontBodyMedium\"] span" ],
    contact |->
      [ phoneNumber |-> "button[data-item-id*=\"phone\"] div[class*=\"fontBodyMedium\"]",
        websiteUrl  |-> "a[data-item-id=\"authority\"]",
        fullAddress |-> "button[data-item-id=\"address\"] div[class*=\"fontBodyMedium\"]" ] ]

FALLBACK_SELECTORS ==
  [ businessName |->
      << "h1[class*=\"fontHeadlineLarge\"]",
         "h1.section-hero-header-title-title",
         "div[role=\"heading\"][aria-level=\"1\"]",
         "h1" >>,
    phoneNumber |->
      << "button[data-item-id*=\"phone\"] div[class*=\"fontBodyMedium\"]",
         "button[aria-label*=\"Phone\"] span",
         "a[href^=\"tel:\"]" >>,
    website |->
      << "a[data-item-id=\"authority\"]",
         "a[aria-label*=\"Website\"]",
         "a[href^=\"http\"]:not([href*=\"google.com\"])" >> ]

Range(f) == { f[i] : i \in DOMAIN f }

\* every selector a detail panel can be queried with
PanelSelectors ==
  { SELECTORS.details.businessName, SELECTORS.details.rating,
    SELECTORS.details.reviewCount, SELECTORS.details.priceLevel,
    SELECTORS.details.businessType, SELECTORS.contact.phoneNumber,
    SELECTORS.contact.websiteUrl, SELECTORS.contact.fullAddress }
  \cup Range(FALLBACK_SELECTORS.businessName)
  \cup Range(FALLBACK_SELECTORS.phoneNumber)
  \cup Range(FALLBACK_SELECTORS.website)

-----------------------------------------------------------------------------
(* The page as the extraction helpers see it.

   A page is [url, dom]; dom maps a selector to what page.$(selector) gives:
     [k |-> "throw"]            the query rejects
     [k |-> "none"]             no element matches (null)
     [k |-> "elem", text, href, aria]
                                the first matching element, with what
                                textContent(), getAttribute('href') and
                                getAttribute('aria-label') give: Null, Str(s)
                                or Raise when the read rejects.              *)

QueryThrows == [k |-> "throw"]
NoElement   == [k |-> "none"]
Elem(text, href, aria) == [k |-> "elem", text |-> text, href |-> href, aria |-> aria]
TextElem(s) == Elem(Str(s), Null, Null)
HrefElem(s) == Elem(Str(<< >>), Str(s), Null)
AriaElem(s) == Elem(Str(<< >>), Null, Str(s))

\* extractText (scraper.ts 332-342): '' unless an element is found and its
\* text is read; the text is trimmed.
extractText(page, selector) ==
  LET element == page.dom[selector]
  IN  IF element.k = "throw" THEN Str(<< >>)
      ELSE IF element.k = "none" THEN Str(<< >>)
      ELSE IF element.text.t = "raise" THEN Str(<< >>)
      ELSE IF element.text.t = "null" THEN Str(<< >>)          \* text?.trim() || ''
      ELSE OrElse(Str(Trim(element.text.s)), Str(<< >>))

\* extractHref with the try/catch left out: a rejected query or read escapes
extractHref_NoCatch(page, selector) ==
  LET element == page.dom[selector]
  IN  IF element.k = "throw" THEN Raise
      ELSE IF element.k = "none" THEN Str(<< >>)
      ELSE IF element.href.t = "raise" THEN Raise
      ELSE OrElse(element.href, Str(<< >>))

\* extractHref (scraper.ts 344-354)
extractHref(page, selector) ==
  LET element == page.dom[selector]
  IN  IF element.k = "throw" THEN Str(<< >>)
      ELSE IF element.k = "none" THEN Str(<< >>)
      ELSE IF element.href.t = "raise" THEN Str(<< >>)
      ELSE OrElse(element.href, Str(<< >>))                \* href || ''

\* extractAriaLabel (scraper.ts 356-366)
extractAriaLabel(page, selector) ==
  LET element == page.dom[selector]
  IN  IF element.k = "throw" THEN Str(<< >>)
      ELSE IF element.k = "none" THEN Str(<< >>)
      ELSE IF element.aria.t = "raise" THEN Str(<< >>)
      ELSE OrElse(element.aria, Str(<< >>))                \* label || ''

-----------------------------------------------------------------------------
(* Parsing of the metrics labels (scraper.ts 368-376).
   A number is kept in thousandths, so 4.5 is Num(4500) and 12 is Num(12000). *)

DigitVal(c) ==
  CASE c = "0" -> 0 [] c = "1" -> 1 [] c = "2" -> 2 [] c = "3" -> 3
    [] c = "4" -> 4 [] c = "5" -> 5 [] c = "6" -> 6 [] c = "7" -> 7
    [] c = "8" -> 8 [] c = "9" -> 9

\* the value of a run of decimal digits
RECURSIVE IntOf(_)
IntOf(ds) ==
  IF ds = << >> THEN 0 ELSE 10 * IntOf(SubSeq(ds, 1, Len(ds) - 1)) + DigitVal(ds[Len(ds)])

\* the thousandths a fraction part stands for: its first three digits
Thousandths(fs) ==
  LET d(i) == IF i <= Len(fs) THEN DigitVal(fs[i]) ELSE 0
  IN  100 * d(1) + 10 * d(2) + d(3)

\* length of the longest run of characters of set S starting at s[i]
RECURSIVE RunLen(_, _, _)
RunLen(s, i, S) ==
  IF i > Len(s) \/ s[i] \notin S THEN 0 ELSE 1 + RunLen(s, i + 1, S)

\* does word w occur in s at position i
OccursAt(s, i, w) ==
  /\ i + Len(w) - 1 <= Len(s)
  /\ SubSeq(s, i, i + Len(w) - 1) = w

\* /(\d+\.?\d*)\s*star/ anchored at i: <<matched, intDigits, fracDigits>>.
\* Every quantifier is greedy and none can give back to make "star" match,
\* so the greedy reading decides the match.
RatingMatchAt(s, i) ==
  LET d1  == RunLen(s, i, Digits)
      j   == i + d1
      dot == IF j <= Len(s) /\ s[j] = "." THEN 1 ELSE 0
      d2  == RunLen(s, j + dot, Digits)
      k   == j + dot + d2
      w   == RunLen(s, k, {Space})
  IN  << d1 >= 1 /\ OccursAt(s, k + w, << "s", "t", "a", "r" >>),
         SubSeq(s, i, j - 1),
         SubSeq(s, j + dot, k - 1) >>

\* String.prototype.toLowerCase on the letters used here
LowerChar(c) ==
  CASE c = "S" -> "s" [] c = "T" -> "t" [] c = "A" -> "a" [] c = "R" -> "r"
    [] c = "U" -> "u" [] c = "E" -> "e"
    [] OTHER -> c
Lower(s) == [ i \in 1..Len(s) |-> LowerChar(s[i]) ]

\* parseRating with the i flag on its pattern
parseRating_IgnoreCase(ratingText) ==
  LET folded == Lower(ratingText)
      hits   == { i \in 1..Len(folded) : RatingMatchAt(folded, i)[1] }
  IN  IF hits = {} THEN Undefined
      ELSE LET first == CHOOSE i \in hits : \A h \in hits : i <= h
               m     == RatingMatchAt(folded, first)
           IN  Num(1000 * IntOf(m[2]) + Thousandths(m[3]))

\* parseRating (scraper.ts 368-371): first match, case-sensitive
parseRating(ratingText) ==
  LET hits == { i \in 1..Len(ratingText) : RatingMatchAt(ratingText, i)[1] }
  IN  IF hits = {} THEN Undefined
      ELSE LET first == CHOOSE i \in hits : \A h \in hits : i <= h
               m     == RatingMatchAt(ratingText, first)
           IN  Num(1000 * IntOf(m[2]) + Thousandths(m[3]))

\* /(\d+)\s*review/ anchored at i
ReviewMatchAt(s, i) ==
  LET d1 == RunLen(s, i, Digits)
      w  == RunLen(s, i + d1, {Space})
  IN  << d1 >= 1 /\ OccursAt(s, i + d1 + w, << "r", "e", "v", "i", "e", "w" >>),
         SubSeq(s, i, i + d1 - 1) >>

\* parseReviewCount (scraper.ts 373-376)
parseReviewCount(reviewText) ==
  LET hits == { i \in 1..Len(reviewText) : ReviewMatchAt(reviewText, i)[1] }
  IN  IF hits = {} THEN Undefined
      ELSE LET first == CHOOSE i \in hits : \A h \in hits : i <= h
           IN  Num(1000 * IntOf(ReviewMatchAt(reviewText, first)[2]))

\* extractCityFromAddress taking the last segment instead of the one before it
extractCityFromAddress_LastPart(address) ==
  LET parts == Split(address)
  IN  IF Len(parts) >= 2 THEN Trim(parts[Len(parts)]) ELSE << >>

\* extractCityFromAddress (scraper.ts 378-382)
extractCityFromAddress(address) ==
  LET parts == Split(address)
  IN  IF Len(parts) >= 2 THEN Trim(parts[Len(parts) - 1]) ELSE << >>

-----------------------------------------------------------------------------
(* The Record model.  A property the object does not have reads as Undefined,
   so an absent optional field is a field holding Undefined.                 *)

Israel  == << "I", "s", "r", "a", "e", "l" >>
Unknown == << "U", "n", "k", "n", "o", "w", "n" >>

\* createEmptyBusiness; now is what new Date() gives
createEmptyBusiness(now) ==
  [ t                  |-> "object",
    id                 |-> Undefined,
    businessName       |-> Str(<< >>),
    description        |-> Undefined,
    businessType       |-> Str(<< >>),
    businessCategories |-> << >>,
    location           |-> [ fullAddress |-> Str(<< >>),
                             city        |-> Str(<< >>),
                             country     |-> Str(Israel) ],
    contact            |-> [ phoneNumber |-> Undefined,
                             website     |-> Undefined,
                             fullAddress |-> Undefined ],
    metrics            |-> [ rating      |-> Undefined,
                             reviewCount |-> Undefined,
                             priceLevel  |-> Undefined ],
    attributes         |-> [ hasWebsite |-> FALSE ],
    businessHours      |-> Undefined,
    images             |-> [ photoUrls |-> << >>, logoUrl |-> Undefined ],
    googleMapsUrl      |-> Str(<< >>),
    lastUpdated        |-> now,
    scrapedAt          |-> now,
    dataCompleteness   |-> Undefined ]

\* field !== undefined && field !== null && field !== ''
IsFilled(field) ==
  /\ field.t # "undefined"
  /\ field.t # "null"
  /\ ~(field.t = "string" /\ field.s = << >>)

\* Math.round of the rational num / den, num >= 0, den > 0: floor(x + 1/2)
MathRound(num, den) == (2 * num + den) \div (2 * den)

TrackedFieldsOf(business) ==
  << business.businessName,
     business.location.fullAddress,
     business.contact.phoneNumber,
     business.contact.website,
     business.metrics.rating,
     business.metrics.reviewCount,
     business.businessHours,
     business.images.logoUrl,
     business.description >>

\* calculateDataCompleteness with Math.floor in place of Math.round
calculateDataCompleteness_Floor(business) ==
  LET fields == TrackedFieldsOf(business)
      filledFields == Cardinality({ i \in 1..Len(fields) : IsFilled(fields[i]) })
  IN  (filledFields * 100) \div Len(fields)

\* calculateDataCompleteness with the test against '' left out
calculateDataCompleteness_CountsEmpty(business) ==
  LET fields == TrackedFieldsOf(business)
      filledFields == Cardinality({ i \in 1..Len(fields) :
                                      fields[i].t \notin { "undefined", "null" } })
  IN  MathRound(filledFields * 100, Len(fields))

\* calculateDataCompleteness
calculateDataCompleteness(business) ==
  LET fields == << business.businessName,
                   business.location.fullAddress,
                   business.contact.phoneNumber,
                   business.contact.website,
                   business.metrics.rating,
                   business.metrics.reviewCount,
                   business.businessHours,
                   business.images.logoUrl,
                   business.description >>
      filledFields == Cardinality({ i \in 1..Len(fields) : IsFilled(fields[i]) })
  IN  MathRound(filledFields * 100, Len(fields))

-----------------------------------------------------------------------------
(* The Business Assembler (scraper.ts 273-327) *)

\* extractBusinessHours, extractImageUrls: not implemented in the source
extractBusinessHours(page) == Undefined
extractImageUrls(page) == << >>

\* number of awaited reads between the two new Date() of extractBusinessData
AssemblerAwaits == Cardinality({ "businessName", "phoneNumber", "website", "fullAddress",
                                 "rating", "reviewCount", "priceLevel", "businessType",
                                 "businessHours", "photoUrls" })

\* hasWebsite taken from the trimmed website instead of the website
attributesOf_Trimmed(contact) == [ hasWebsite |-> Trim(contact.website.s) # << >> ]

\* scraper.ts 290-292: attributes = { hasWebsite: !!business.contact.website }
attributesOf(contact) == [ hasWebsite |-> Truthy(contact.website) ]

\* scraper.ts 295-300: the location group, from contact.fullAddress || ''
locationOf(contact) ==
  LET address == OrElse(contact.fullAddress, Str(<< >>))
  IN  [ fullAddress |-> address,
        city        |-> Str(extractCityFromAddress(address.s)),
        country     |-> Str(Israel) ]

\* extractBusinessData: uuid is what uuidv4() gives, startedAt and finishedAt
\* what new Date() gives at lines 276 and 324.  A helper that threw would
\* reject the whole call: the result is then Raise.
extractBusinessData(page, uuid, startedAt, finishedAt) ==
  LET empty           == createEmptyBusiness(startedAt)
      businessName    == extractText(page, SELECTORS.details.businessName)
      phoneNumber     == extractText(page, SELECTORS.contact.phoneNumber)
      website         == extractHref(page, SELECTORS.contact.websiteUrl)
      fullAddress     == extractText(page, SELECTORS.contact.fullAddress)
      ratingText      == extractAriaLabel(page, SELECTORS.details.rating)
      reviewCountText == extractText(page, SELECTORS.details.reviewCount)
      priceLevel      == extractText(page, SELECTORS.details.priceLevel)
      typeText        == extractText(page, SELECTORS.details.businessType)
      reads           == { businessName, phoneNumber, website, fullAddress, ratingText,
                           reviewCountText, priceLevel, typeText }
      contact         == [ phoneNumber |-> phoneNumber,
                               website     |-> website,
                               fullAddress |-> fullAddress ]
      businessType    == OrElse(typeText, Str(Unknown))
  IN  IF \E r \in reads : r.t = "raise" THEN Raise
      ELSE [ empty EXCEPT
               !.id                 = uuid,
               !.scrapedAt          = startedAt,
               !.businessName       = businessName,
               !.googleMapsUrl      = page.url,
               !.contact            = contact,
               !.attributes         = attributesOf(contact),
               !.location           = locationOf(contact),
               !.metrics            = [ rating      |-> parseRating(ratingText.s),
                                        reviewCount |-> parseReviewCount(reviewCountText.s),
                                        priceLevel  |-> priceLevel ],
               !.businessType       = businessType,
               !.businessCategories = << businessType >>,
               !.businessHours      = extractBusinessHours(page),
               !.images             = [ photoUrls |-> extractImageUrls(page),
                                        logoUrl   |-> Undefined ],
               !.lastUpdated        = finishedAt ]

-----------------------------------------------------------------------------
(* Pages *)

BaseDom == [ sel \in PanelSelectors |-> NoElement ]
MapsUrl == Str(<< "m" >>)

\* what a query for a text element can give
TextStates(texts) ==
  { QueryThrows, NoElement, Elem(Null, Null, Null), Elem(Raise, Null, Null) }
    \cup { TextElem(t) : t \in texts }

\* what a query for a link can give
HrefStates(hrefs) ==
  { QueryThrows, NoElement, Elem(Str(<< >>), Null, Null), Elem(Str(<< >>), Raise, Null) }
    \cup { HrefElem(h) : h \in hrefs }

Label45stars == << "4", ".", "5", " ", "s", "t", "a", "r", "s" >>
Label5Stars  == << "5", " ", "S", "t", "a", "r", "s" >>
Text12reviews == << "1", "2", " ", "r", "e", "v", "i", "e", "w", "s" >>

\* panels that differ in the address text only
AddressPanels ==
  { [ url |-> MapsUrl,
      dom |-> [ BaseDom EXCEPT ![SELECTORS.contact.fullAddress] = e ] ] :
    e \in TextStates(StringsUpTo({ "a", Space, Comma }, MaxAddrLen)) }

\* panels that differ in the name, phone, website (primary and fallback
\* locators) and metrics elements
FieldPanels ==
  { [ url |-> MapsUrl,
      dom |-> [ BaseDom EXCEPT
                  ![SELECTORS.details.businessName]    = name,
                  ![FALLBACK_SELECTORS.businessName[2]] = name2,
                  ![FALLBACK_SELECTORS.businessName[4]] = name4,
                  ![SELECTORS.contact.phoneNumber]     = phone,
                  ![FALLBACK_SELECTORS.phoneNumber[3]] = phone3,
                  ![SELECTORS.contact.websiteUrl]      = web,
                  ![FALLBACK_SELECTORS.website[2]]     = web2,
                  ![SELECTORS.details.rating]          = rating,
                  ![SELECTORS.details.reviewCount]     = reviews ] ] :
    name    \in TextStates({ << >>, << Space, "n", Space >> }),
    name2   \in { NoElement, TextElem(<< "f" >>) },
    name4   \in { NoElement, TextElem(<< "g" >>) },
    phone   \in { NoElement, TextElem(<< "5" >>) },
    phone3  \in { NoElement, TextElem(<< "6" >>) },
    web     \in HrefStates({ << >>, << Space >>, << "u" >> }),
    web2    \in { NoElement, HrefElem(<< "w" >>) },
    rating  \in { NoElement, AriaElem(Label45stars), AriaElem(Label5Stars) },
    reviews \in { NoElement, TextElem(Text12reviews) } }

\* what rating aria-labels are made of
LabelTokens ==
  { << "4", ".", "5" >>, << "5" >>, << "." >>, << Space >>, << "x" >>,
    << "s", "t", "a", "r" >>, << "S", "t", "a", "r" >>, << "S", "T", "A", "R" >> }

\* the labels of at most n tokens
RECURSIVE LabelsUpTo(_)
LabelsUpTo(n) ==
  IF n = 0 THEN { << >> }
  ELSE LET shorter == LabelsUpTo(n - 1)
       IN  shorter \cup { s \o tok : s \in shorter, tok \in LabelTokens }

\* panels that differ in the rating element only
RatingPanels ==
  { [ url |-> MapsUrl,
      dom |-> [ BaseDom EXCEPT ![SELECTORS.details.rating] = e ] ] :
    e \in { NoElement, Elem(Str(<< >>), Null, Null) }
             \cup { AriaElem(l) : l \in LabelsUpTo(MaxLabelTokens) } }

\* the records calculateDataCompleteness is applied to: the empty one with
\* each tracked field, and one untracked field, set independently
ScoredRecords ==
  { [ createEmptyBusiness(0) EXCEPT
        !.businessName         = name,
        !.location.fullAddress = address,
        !.contact.phoneNumber  = phone,
        !.contact.website      = website,
        !.metrics.rating       = rating,
        !.metrics.reviewCount  = reviews,
        !.businessHours        = hours,
        !.images.logoUrl       = logo,
        !.description          = description,
        !.businessType         = type ] :
    name        \in { Str(<< >>), Str(<< "n" >>) },
    address     \in { Str(<< >>), Str(<< "a" >>) },
    phone       \in { Undefined, Null, Str(<< >>), Str(<< "5" >>) },
    website     \in { Undefined, Str(<< >>), Str(<< "u" >>) },
    rating      \in { Undefined, Num(0), Num(4500) },
    reviews     \in { Undefined, Num(0), Num(12000) },
    hours       \in { Undefined, Null, Obj("hours") },
    logo        \in { Undefined, Str(<< >>), Str(<< "l" >>) },
    description \in { Undefined, Str(<< >>), Str(<< "d" >>) },
    type        \in { Str(<< >>), Str(<< "t" >>) } }

-----------------------------------------------------------------------------
(* The configuration: config.ts, evaluated once when the module is imported *)

Chars_true    == << "t", "r", "u", "e" >>
Chars_info    == << "i", "n", "f", "o" >>
Chars_exports == << ".", "/", "e", "x", "p", "o", "r", "t", "s" >>
Chars_logs    == << ".", "/", "l", "o", "g", "s" >>
LogLevels     == { << "e", "r", "r", "o", "r" >>, << "w", "a", "r", "n" >>, Chars_info,
                   << "d", "e", "b", "u", "g" >> }

\* the environment variables config.ts reads
BooleanKeys == { "HEADLESS", "STEALTH_MODE", "RANDOMIZE_VIEWPORT", "RANDOMIZE_USER_AGENT",
                 "SIMULATE_HUMAN_BEHAVIOR", "BACKUP_ENABLED", "USE_API_FALLBACK",
                 "ROTATE_PROXIES", "ENABLE_SCREENSHOTS" }
NumberKeys  == { "DEFAULT_WORKERS", "TIMEOUT", "MAX_RETRIES", "MIN_DELAY", "MAX_DELAY",
                 "RATE_LIMIT_PAUSE", "BUFFER_SIZE" }
StringKeys  == { "EXPORT_PATH", "GOOGLE_MAPS_API_KEY", "PROXY_URL", "PROXY_USERNAME",
                 "PROXY_PASSWORD", "LOG_LEVEL", "LOG_FILE_PATH" }
EnvKeys     == BooleanKeys \cup NumberKeys \cup StringKeys

\* process.env with none of them set
UnsetEnv == [ k \in EnvKeys |-> Undefined ]

\* value?.toLowerCase() === 'true'
parseBoolean(value) ==
  IF value.t = "undefined" THEN FALSE ELSE Lower(value.s) = Chars_true

NaN == [ nan |-> TRUE, n |-> 0 ]

\* parseInt(s, 10): leading white space, a sign, then the run of digits; NaN
\* when there is no digit
parseInt(s) ==
  LET t      == TrimStart(s)
      signed == t # << >> /\ t[1] \in { "-", "+" }
      body   == IF signed THEN Tail(t) ELSE t
      k      == RunLen(body, 1, Digits)
      n      == IntOf(SubSeq(body, 1, k))
  IN  IF k = 0 THEN NaN
      ELSE [ nan |-> FALSE, n |-> IF signed /\ t[1] = "-" THEN 0 - n ELSE n ]

parseNumber(value, defaultValue) ==
  LET num == parseInt(OrElse(value, Str(<< >>)).s)
  IN  IF num.nan THEN defaultValue ELSE num.n

rawConfig(e) ==
  [ t |-> "config",
    scraping |->
      [ headless              |-> parseBoolean(e["HEADLESS"]),
        defaultWorkers        |-> parseNumber(e["DEFAULT_WORKERS"], 3),
        timeout               |-> parseNumber(e["TIMEOUT"], 30000),
        maxRetries            |-> parseNumber(e["MAX_RETRIES"], 3),
        stealthMode           |-> parseBoolean(e["STEALTH_MODE"]),
        randomizeViewport     |-> parseBoolean(e["RANDOMIZE_VIEWPORT"]),
        randomizeUserAgent    |-> parseBoolean(e["RANDOMIZE_USER_AGENT"]),
        simulateHumanBehavior |-> parseBoolean(e["SIMULATE_HUMAN_BEHAVIOR"]) ],
    rateLimiting |->
      [ minDelay       |-> parseNumber(e["MIN_DELAY"], 2000),
        maxDelay       |-> parseNumber(e["MAX_DELAY"], 8000),
        rateLimitPause |-> parseNumber(e["RATE_LIMIT_PAUSE"], 60000) ],
    storage |->
      [ exportPath    |-> OrElse(e["EXPORT_PATH"], Str(Chars_exports)),
        bufferSize    |-> parseNumber(e["BUFFER_SIZE"], 10),
        backupEnabled |-> parseBoolean(e["BACKUP_ENABLED"]) ],
    googleMaps |->
      [ apiKey         |-> OrElse(e["GOOGLE_MAPS_API_KEY"], Str(<< >>)),
        useApiFallback |-> parseBoolean(e["USE_API_FALLBACK"]) ],
    proxy |->
      [ url           |-> OrElse(e["PROXY_URL"], Str(<< >>)),
        username      |-> OrElse(e["PROXY_USERNAME"], Str(<< >>)),
        password      |-> OrElse(e["PROXY_PASSWORD"], Str(<< >>)),
        rotateProxies |-> parseBoolean(e["ROTATE_PROXIES"]) ],
    logging |->
      [ level             |-> OrElse(e["LOG_LEVEL"], Str(Chars_info)),
        filePath          |-> OrElse(e["LOG_FILE_PATH"], Str(Chars_logs)),
        enableScreenshots |-> parseBoolean(e["ENABLE_SCREENSHOTS"]) ] ]

\* configSchema.validate(raw) reports no error.  Every key of raw holds a
\* value, so none of the schema's .default() values is ever filled in and the
\* validated value is raw itself.
configSchema_accepts(raw) ==
  /\ raw.scraping.defaultWorkers >= 1 /\ raw.scraping.defaultWorkers <= 10
  /\ raw.scraping.timeout >= 10000
  /\ raw.scraping.maxRetries >= 0
  /\ raw.rateLimiting.minDelay >= 1000
  /\ raw.rateLimiting.maxDelay >= 1000
  /\ raw.rateLimiting.rateLimitPause >= 10000
  /\ raw.storage.exportPath.s # << >>
  /\ raw.storage.bufferSize >= 1
  /\ raw.logging.level.s \in LogLevels
  /\ raw.logging.filePath.s # << >>

NotLoaded   == [ t |-> "notLoaded" ]
ConfigError == [ t |-> "error" ]    \* the import threw 'Configuration validation error'

\* the config the module exports under environment e
loadConfig(e) == IF configSchema_accepts(rawConfig(e)) THEN rawConfig(e) ELSE ConfigError

\* Math.random() is k / RandomSteps for a k in 0..RandomSteps-1
RandomSteps == 2
Randoms == 0 .. (RandomSteps - 1)

\* Math.floor(Math.random() * (max - min + 1)) + min
RandomDelay(min, max, k) == ((k * (max - min + 1)) \div RandomSteps) + min

-----------------------------------------------------------------------------
(* Initial values *)

\* scrollResults is not running: its locals do not exist
NoScroll == [ previousHeight |-> 0, currentHeight |-> 0, scrollAttempts |-> 0 ]

SessionIdle ==
  /\ pc = "idle"
  /\ limit = 0
  /\ cards = << >>
  /\ businessCards = << >>
  /\ index = 0
  /\ results = << >>
  /\ origin = << >>
  /\ trace = << >>
  /\ search = [ timedOut |-> FALSE, indicator |-> "unchecked" ]
  /\ pending = "none"
  /\ scroll = NoScroll
  /\ displayed = 0
  /\ currentPage = "null"
  /\ pageOpen = FALSE
  /\ thrown = "none"
  /\ clock = 0

AssemblerIdle ==
  /\ panel = [ url |-> MapsUrl, dom |-> BaseDom ]
  /\ assembled = Undefined

RecordIdle ==
  /\ record = createEmptyBusiness(0)
  /\ score = << >>

\* no overlapping calls are running
CallsIdle == sessions = << >>

\* the delay range of an environment: both variables unset, or set to texts
WithDelays(min, max) ==
  [ UnsetEnv EXCEPT !["MIN_DELAY"] = min, !["MAX_DELAY"] = max ]

Text1000 == Str(<< "1", "0", "0", "0" >>)
Text1001 == Str(<< "1", "0", "0", "1" >>)
Text1002 == Str(<< "1", "0", "0", "2" >>)

\* the environments of a scraping session: the default delay range, and one
\* that passes validation with MIN_DELAY above MAX_DELAY
SessionEnvs == { UnsetEnv, WithDelays(Text1002, Text1000) }

\* the configuration loaded from an environment that sets none of the variables
ConfigIdle ==
  /\ env = UnsetEnv
  /\ config = loadConfig(UnsetEnv)
  /\ drawn = << >>

\* a BrowserManager before launch()
NotLaunched == [ browser |-> "null", connected |-> FALSE, contexts |-> << >> ]

ManagerIdle ==
  /\ manager = NotLaunched
  /\ closing = "idle"
  /\ shutdown = "idle"

MaxContexts == 4

\* the keys contexts are stored under; 1 is 'main', the context of the scraper
ContextIds  == 1..MaxContexts
MainContext == 1

\* initialize() is over: the browser runs and holds the context 'main'
Initialized == [ browser |-> "browser", connected |-> TRUE, contexts |-> << MainContext >> ]

\* a GoogleMapsScraper after initialize(), before close()
ScraperReady ==
  /\ manager = Initialized
  /\ closing = "idle"
  /\ shutdown = "idle"

\* no request is being intercepted
RouteIdle == route = [ request |-> Undefined, resolved |-> << >> ]

\* searchBusinessesInCity has not been called
FinderIdle ==
  finder = [ pc |-> "idle", results |-> << >>, index |-> 0, businesses |-> << >>,
             withWebsite |-> 0 ]

-----------------------------------------------------------------------------
(* The Business Assembler on one detail panel *)

InitAssemble ==
  /\ SessionIdle
  /\ RecordIdle
  /\ CallsIdle
  /\ FinderIdle
  /\ ConfigIdle
  /\ ManagerIdle
  /\ RouteIdle
  /\ panel \in AddressPanels \cup FieldPanels
  /\ assembled = Undefined

\* one call of extractBusinessData on the panel
Assemble ==
  /\ assembled.t = "undefined"
  /\ assembled' = extractBusinessData(panel, Str(<< "u" >>), clock, clock + AssemblerAwaits)
  /\ clock' = clock + AssemblerAwaits
  /\ UNCHANGED << pc, limit, cards, businessCards, index, results, origin, trace, search,
                  pending, scroll, currentPage, pageOpen, thrown, panel, record, score,
                  sessions, finder, displayed, configVars, managerVars, route >>

NextAssemble == Assemble

SpecAssemble == InitAssemble /\ [][NextAssemble]_vars

-----------------------------------------------------------------------------
(* The Business Assembler on a panel whose rating label varies *)

InitRating ==
  /\ SessionIdle
  /\ RecordIdle
  /\ CallsIdle
  /\ FinderIdle
  /\ ConfigIdle
  /\ ManagerIdle
  /\ RouteIdle
  /\ panel \in RatingPanels
  /\ assembled = Undefined

SpecRating == InitRating /\ [][NextAssemble]_vars

-----------------------------------------------------------------------------
(* calculateDataCompleteness on one record *)

InitCompleteness ==
  /\ SessionIdle
  /\ AssemblerIdle
  /\ CallsIdle
  /\ FinderIdle
  /\ ConfigIdle
  /\ ManagerIdle
  /\ RouteIdle
  /\ record \in ScoredRecords
  /\ score = << >>

\* one call of calculateDataCompleteness(record): it reads the record and
\* assigns nothing
ComputeCompleteness ==
  /\ Len(score) < MaxCalls
  /\ score' = Append(score, calculateDataCompleteness(record))
  /\ UNCHANGED << sessionVars, panel, assembled, record, sessions, finder, displayed, configVars, managerVars, route >>

NextCompleteness == ComputeCompleteness

SpecCompleteness == InitCompleteness /\ [][NextCompleteness]_vars

-----------------------------------------------------------------------------
(* Claims about the Business Assembler (SpecAssemble) *)

Returned == assembled.t # "undefined"
WebsiteElement == panel.dom[SELECTORS.contact.websiteUrl]
NameElement    == panel.dom[SELECTORS.details.businessName]
AddressElement == panel.dom[SELECTORS.contact.fullAddress]

\* C4: every Record extractBusinessData returns has
\* attributes.hasWebsite = (contact.website is a non-empty string), whatever
\* the website element gave (no element, empty, whitespace-only or valid href).
C4_HasWebsiteDerived ==
  assembled.t = "object" =>
    ( assembled.attributes.hasWebsite
        <=> ( /\ assembled.contact.website.t = "string"
              /\ Len(assembled.contact.website.s) > 0 ) )

\* a whitespace-only href was extracted and the Record says hasWebsite
C4_Witness ==
  /\ assembled.t = "object"
  /\ WebsiteElement = HrefElem(<< Space >>)
  /\ assembled.contact.website = Str(<< Space >>)
  /\ assembled.attributes.hasWebsite

\* the locator matched nothing, or the attribute the helper reads is missing
Missing(element, attr) ==
  \/ element.k = "none"
  \/ element.k = "elem" /\ element[attr].t = "null"

FirstMatch(page, locators, attr) ==
  LET hits  == { i \in DOMAIN locators : page.dom[locators[i]].k = "elem" }
      first == CHOOSE i \in hits : \A h \in hits : i <= h
  IN  IF hits = {} THEN Str(<< >>)
      ELSE IF attr = "href" THEN extractHref(page, locators[first])
      ELSE extractText(page, locators[first])

\* C9: name, phone and website are the value of the first locator of their
\* fallback list (primary first) that matches; '' only when all of them miss.
C9_FallbackOrder ==
  assembled.t = "object" =>
    /\ assembled.businessName
         = FirstMatch(panel, FALLBACK_SELECTORS.businessName, "text")
    /\ assembled.contact.phoneNumber
         = FirstMatch(panel, FALLBACK_SELECTORS.phoneNumber, "text")
    /\ assembled.contact.website
         = FirstMatch(panel, FALLBACK_SELECTORS.website, "href")

\* positions of the commas of s
CommasOf(s) == { i \in 1..Len(s) : s[i] = Comma }
Max(S) == CHOOSE m \in S : \A x \in S : x <= m
Spaces(n) == [ i \in 1..n |-> Space ]

\* t is s without its leading and trailing spaces
IsTrimOf(t, s) ==
  /\ t = << >> \/ (t[1] # Space /\ t[Len(t)] # Space)
  /\ \E a, b \in 0..Len(s) : s = Spaces(a) \o t \o Spaces(b)

\* C10: the city is the trimmed second-to-last comma-separated segment of the
\* address, '' for an address without comma; location.fullAddress is the
\* extracted address.
C10_CityFromAddress ==
  assembled.t = "object" =>
    LET address == assembled.location.fullAddress.s
        city    == assembled.location.city.s
        commas  == CommasOf(address)
        last    == Max(commas)
        before  == Max({ 0 } \cup { i \in commas : i < last })
    IN  /\ assembled.location.fullAddress = assembled.contact.fullAddress
        /\ AddressElement.k = "elem" /\ AddressElement.text.t = "string"
             => IsTrimOf(address, AddressElement.text.s)
        /\ IF commas = {} THEN city = << >>
           ELSE IsTrimOf(city, SubSeq(address, before + 1, last - 1))

\* an address of three segments whose middle one is trimmed to the city
C10_Witness ==
  /\ assembled.t = "object"
  /\ Cardinality(CommasOf(assembled.location.fullAddress.s)) = 2
  /\ assembled.location.city = Str(<< "a" >>)
  /\ assembled.location.fullAddress.s = << "a", Comma, Space, "a", Comma >>

-----------------------------------------------------------------------------
(* Claims about the rating label (SpecRating) *)

IsDigits(s) == \A i \in 1..Len(s) : s[i] \in Digits
IsSpaces(s) == \A i \in 1..Len(s) : s[i] = Space

\* d spells a decimal number: digits, then possibly a point and more digits
IsDecimal(d) ==
  \E k \in 1..Len(d) :
    /\ IsDigits(SubSeq(d, 1, k))
    /\ \/ k = Len(d)
       \/ d[k + 1] = "." /\ IsDigits(SubSeq(d, k + 2, Len(d)))

\* thousandths of the number d spells
DecimalValue(d) ==
  LET points == { i \in 1..Len(d) : d[i] = "." }
      point  == IF points = {} THEN Len(d) + 1 ELSE CHOOSE i \in points : TRUE
  IN  1000 * IntOf(SubSeq(d, 1, point - 1)) + Thousandths(SubSeq(d, point + 1, Len(d)))

\* at position i of s stands a decimal number of n characters, then w
\* spaces, then word
NumberThenWord(s, i, n, w, word) ==
  /\ n >= 1
  /\ i + n + w + Len(word) - 1 <= Len(s)
  /\ IsDecimal(SubSeq(s, i, i + n - 1))
  /\ IsSpaces(SubSeq(s, i + n, i + n + w - 1))
  /\ SubSeq(s, i + n + w, i + n + w + Len(word) - 1) = word

StarWord == << "s", "t", "a", "r" >>

\* the occurrences <<i, n, w>> of a decimal number followed by "star" in s
StarOccurrences(s) ==
  { o \in (1..Len(s)) \X (1..Len(s)) \X (0..Len(s)) :
      NumberThenWord(s, o[1], o[2], o[3], StarWord) }

\* thousandths of the number of the first occurrence (the longest reading of
\* the number there)
FirstStarNumber(s, occurrences) ==
  LET first == CHOOSE o \in occurrences :
                 \A p \in occurrences :
                   o[1] < p[1] \/ (o[1] = p[1] /\ o[2] >= p[2])
  IN  Num(DecimalValue(SubSeq(s, first[1], first[1] + first[2] - 1)))

RatingElement == panel.dom[SELECTORS.details.rating]

\* the aria-label extractBusinessData hands to parseRating
RatingLabel ==
  IF RatingElement.k = "elem" /\ RatingElement.aria.t = "string"
    THEN RatingElement.aria.s ELSE << >>

\* C11 as stated: the rating is the number of the first occurrence of a
\* decimal number followed by "star" in the aria-label, letter case ignored,
\* and is absent when the label has no such occurrence.
C11_CaseInsensitive ==
  assembled.t = "object" =>
    LET occurrences == StarOccurrences(Lower(RatingLabel))
    IN  assembled.metrics.rating
          = IF occurrences = {} THEN Undefined
            ELSE FirstStarNumber(RatingLabel, occurrences)

\* C11 amended: the rating is the number of the first occurrence of a decimal
\* number followed by lower-case "star" in the aria-label, and is absent,
\* without failing, when the label has no such occurrence ("4.5 Stars",
\* "4.5 STARS", "Rated 4.5 out of 5", the empty label).
C11_LowerCaseStar ==
  assembled.t = "object" =>
    LET occurrences == StarOccurrences(RatingLabel)
    IN  assembled.metrics.rating
          = IF occurrences = {} THEN Undefined
            ELSE FirstStarNumber(RatingLabel, occurrences)

\* "4.5 Star" was read and the rating is absent
C11_Witness ==
  /\ assembled.t = "object"
  /\ RatingLabel = << "4", ".", "5", Space, "S", "t", "a", "r" >>
  /\ assembled.metrics.rating = Undefined

-----------------------------------------------------------------------------
(* Claims about calculateDataCompleteness (SpecCompleteness) *)

\* the nine tracked fields of a Record, by name
Tracked(b) ==
  [ name        |-> b.businessName,
    address     |-> b.location.fullAddress,
    phone       |-> b.contact.phoneNumber,
    website     |-> b.contact.website,
    rating      |-> b.metrics.rating,
    reviewCount |-> b.metrics.reviewCount,
    hours       |-> b.businessHours,
    logo        |-> b.images.logoUrl,
    description |-> b.description ]

\* how many tracked fields are neither undefined, null nor ''
Populated(b) ==
  Cardinality({ f \in DOMAIN Tracked(b) :
                  Tracked(b)[f] \notin { Undefined, Null, Str(<< >>) } })

Abs(x) == IF x < 0 THEN -x ELSE x

\* C5: calculateDataCompleteness gives the integer nearest to 100 * k / 9, k
\* the number of populated tracked fields; it is in 0..100 and no other field
\* of the Record changes it.
C5_Completeness ==
  \A i \in 1..Len(score) :
    /\ score[i] \in 0..100
    /\ 2 * Abs(9 * score[i] - 100 * Populated(record)) <= 9

\* five of nine fields populated: 55.55 rounds up to 56
C5_Witness ==
  /\ Len(score) >= 1
  /\ Populated(record) = 5
  /\ score[1] = 56
  /\ record.businessType = Str(<< "t" >>)

C6_Values ==
  /\ \A i, j \in 1..Len(score) : score[i] = score[j]
  /\ record = createEmptyBusiness(0) => \A i \in 1..Len(score) : score[i] = 0
  /\ Populated(record) = 9 => \A i \in 1..Len(score) : score[i] = 100

\* C6: computing completeness again on the same Record gives the same value
\* and leaves the Record as it was; the empty Record scores 0, a Record with
\* all nine tracked fields populated scores 100.
C6_Idempotent == [](C6_Values) /\ [][record' = record]_vars

\* completeness computed twice on a fully populated Record
C6_Witness ==
  /\ Len(score) = 2
  /\ Populated(record) = 9
  /\ score = << 100, 100 >>

-----------------------------------------------------------------------------
(* One searchBusinesses session (scraper.ts 58-268) *)

Min(a, b) == IF a < b THEN a ELSE b

\* Array.prototype.slice(0, end): a negative end counts from the end
Slice0(array, end) ==
  LET len   == Len(array)
      final == IF end < 0 THEN (IF len + end < 0 THEN 0 ELSE len + end) ELSE Min(end, len)
  IN  SubSeq(array, 1, final)

\* extractBusinessCards without the slice
extractBusinessCards_NoLimit(found, max) == found

\* extractBusinessCards (scraper.ts 224-234), found being what page.$$ gave
extractBusinessCards(found, max) == Slice0(found, max)

maxScrollAttempts == 10

Bool(b)     == [ t |-> "boolean", b |-> b ]
ErrorOf(m)  == [ t |-> "string", message |-> m ]

\* the two shapes of ScrapeResult the source builds (scraper.ts 255-266)
Success(b, duration) ==
  [ success |-> TRUE, business |-> b, duration |-> Num(duration),
    error |-> Undefined, retryable |-> Undefined ]
\* the failure result built without its retryable flag
Failure_NoFlag(message) ==
  [ success |-> FALSE, business |-> Undefined, duration |-> Undefined,
    error |-> ErrorOf(message), retryable |-> Undefined ]

Failure(message) ==
  [ success |-> FALSE, business |-> Undefined, duration |-> Undefined,
    error |-> ErrorOf(message), retryable |-> Bool(TRUE) ]

Event(card, what) == [ card |-> card, what |-> what ]

\* history: humanDelay waited ms milliseconds before card was clicked
Delayed(card, ms) == [ card |-> card, what |-> "delay", ms |-> ms ]

DigitOf(n) == CHOOSE c \in Digits : DigitVal(c) = n
Uuid(n) == Str(<< "u", DigitOf(n) >>)

\* the detail panels a card of a session can open
FullPanel ==
  [ url |-> MapsUrl,
    dom |-> [ BaseDom EXCEPT
                ![SELECTORS.details.businessName] = TextElem(<< Space, "n", Space >>),
                ![SELECTORS.contact.phoneNumber]  = TextElem(<< "5" >>),
                ![SELECTORS.contact.websiteUrl]   = HrefElem(<< "u" >>),
                ![SELECTORS.contact.fullAddress]  = TextElem(<< "a", Comma, Space, "a", Comma, "a" >>),
                ![SELECTORS.details.rating]       = AriaElem(Label45stars),
                ![SELECTORS.details.reviewCount]  = TextElem(Text12reviews) ] ]
NoWebsitePanel ==
  [ url |-> MapsUrl,
    dom |-> [ BaseDom EXCEPT
                ![SELECTORS.details.businessName] = TextElem(<< "n" >>),
                ![SELECTORS.contact.phoneNumber]  = TextElem(<< "5" >>) ] ]
SessionPanels == { FullPanel, NoWebsitePanel }

\* the address the page is at while it shows the detail panel of a card
UrlOf(card) == Str(<< "m", DigitOf(card) >>)

\* the page showing the detail panel of a card with content p
PanelOf(card, p) == [ p EXCEPT !.url = UrlOf(card) ]

\* what card.click() can reject with: the message of the error tells what
\* went wrong
CardErrors == { "Timeout", "NetworkError", "RateLimit", "BotDetection", "Captcha" }

Limits  == -1..MaxLimit
Heights == 0..MaxHeight

Init ==
  /\ SessionIdle
  /\ AssemblerIdle
  /\ RecordIdle
  /\ CallsIdle
  /\ FinderIdle
  /\ env \in SessionEnvs
  /\ config = loadConfig(env)
  /\ drawn = << >>
  /\ ScraperReady
  /\ RouteIdle

\* searchBusinesses rejects with error e (scraper.ts 135-138)
Throw(e) ==
  /\ thrown' = e
  /\ pc' = "threw"

\* scraper.ts 58-67: the call
Start(l) ==
  /\ pc = "idle"
  /\ limit' = l
  /\ results' = << >>
  /\ pc' = "createPage"
  /\ UNCHANGED << cards, businessCards, index, origin, trace, search, pending, scroll,
                  currentPage, pageOpen, thrown, clock, panel, assembled, record, score,
                  sessions, finder, displayed, configVars, managerVars, route >>

\* scraper.ts 70-71
CreatePage ==
  /\ pc = "createPage"
  /\ pageOpen' = TRUE
  /\ currentPage' = "page"
  /\ pc' = "goto"
  /\ UNCHANGED << limit, cards, businessCards, index, results, origin, trace, search,
                  pending, scroll, thrown, clock, panel, assembled, record, score,
                  sessions, finder, displayed, configVars, managerVars, route >>

CreatePageFails ==
  /\ pc = "createPage"
  /\ Throw("PageCreateFailed")
  /\ UNCHANGED << limit, cards, businessCards, index, results, origin, trace, search,
                  pending, scroll, currentPage, pageOpen, clock, panel, assembled,
                  record, score,
                  sessions, finder, displayed, configVars, managerVars, route >>

\* scraper.ts 74-80: page.goto, then simulateHumanBehavior, which catches
\* its own failures (antiDetectionService.ts 147-174)
Goto ==
  /\ pc = "goto"
  /\ pc' = "search"
  /\ UNCHANGED << limit, cards, businessCards, index, results, origin, trace, search,
                  pending, scroll, currentPage, pageOpen, thrown, clock, panel, assembled,
                  record, score,
                  sessions, finder, displayed, configVars, managerVars, route >>

\* the outer catch returning what was accumulated instead of rethrowing
GotoFails_ReturnsEmpty ==
  /\ pc = "goto"
  /\ pc' = "returned"
  /\ UNCHANGED << limit, cards, businessCards, index, results, origin, trace, search,
                  pending, scroll, currentPage, pageOpen, thrown, clock, panel, assembled,
                  record, score, sessions, finder, displayed, configVars, managerVars, route >>

GotoFails ==
  /\ pc = "goto"
  /\ Throw("NavigationFailed")
  /\ UNCHANGED << limit, cards, businessCards, index, results, origin, trace, search,
                  pending, scroll, currentPage, pageOpen, clock, panel, assembled,
                  record, score,
                  sessions, finder, displayed, configVars, managerVars, route >>

\* scraper.ts 83, 144-161
PerformSearch ==
  /\ pc = "search"
  /\ pc' = "waitResults"
  /\ UNCHANGED << limit, cards, businessCards, index, results, origin, trace, search,
                  pending, scroll, currentPage, pageOpen, thrown, clock, panel, assembled,
                  record, score,
                  sessions, finder, displayed, configVars, managerVars, route >>

PerformSearchFails ==
  /\ pc = "search"
  /\ Throw("SearchFailed")
  /\ UNCHANGED << limit, cards, businessCards, index, results, origin, trace, search,
                  pending, scroll, currentPage, pageOpen, clock, panel, assembled,
                  record, score,
                  sessions, finder, displayed, configVars, managerVars, route >>

\* scraper.ts 168-173: a result card appeared; the results then settle
WaitForCards ==
  /\ pc = "waitResults"
  /\ pc' = "scrollStart"
  /\ UNCHANGED << limit, cards, businessCards, index, results, origin, trace, search,
                  pending, scroll, currentPage, pageOpen, thrown, clock, panel, assembled,
                  record, score,
                  sessions, finder, displayed, configVars, managerVars, route >>

\* scraper.ts 168-170, 177: no result card within the timeout
WaitForCardsTimesOut ==
  /\ pc = "waitResults"
  /\ search' = [ search EXCEPT !.timedOut = TRUE ]
  /\ pending' = "ResultsTimeout"
  /\ pc' = "checkNoResults"
  /\ UNCHANGED << limit, cards, businessCards, index, results, origin, trace, scroll,
                  currentPage, pageOpen, thrown, clock, panel, assembled, record, score,
                  sessions, finder, displayed, configVars, managerVars, route >>

\* scraper.ts 191-197: scrollResults finds the container, or returns without it
ScrollStart ==
  /\ pc = "scrollStart"
  /\ \/ /\ pc' = "enumerate"                       \* no results container
        /\ UNCHANGED scroll
     \/ \E h \in Heights :
          /\ scroll' = [ previousHeight |-> 0, currentHeight |-> h, scrollAttempts |-> 0 ]
          /\ pc' = "scrolling"
  /\ UNCHANGED << limit, cards, businessCards, index, results, origin, trace, search,
                  pending, currentPage, pageOpen, thrown, clock, panel, assembled,
                  record, score,
                  sessions, finder, displayed, configVars, managerVars, route >>

\* the loop going on for as long as the extent changes
ScrollAgain_Unbounded == scroll.previousHeight # scroll.currentHeight

\* scraper.ts 199: the condition of the while
ScrollAgain ==
  /\ scroll.previousHeight # scroll.currentHeight
  /\ scroll.scrollAttempts < maxScrollAttempts

\* scraper.ts 199-218: one iteration of the scroll loop
ScrollStep ==
  /\ pc = "scrolling"
  /\ ScrollAgain
  /\ \E h \in Heights :
       scroll' = [ previousHeight |-> scroll.currentHeight,
                   currentHeight  |-> h,
                   scrollAttempts |-> scroll.scrollAttempts + 1 ]
  /\ UNCHANGED << pc, limit, cards, businessCards, index, results, origin, trace, search,
                  pending, currentPage, pageOpen, thrown, clock, panel, assembled,
                  record, score,
                  sessions, finder, displayed, configVars, managerVars, route >>

\* scraper.ts 199, 219: the loop ends and scrollResults returns
ScrollDone ==
  /\ pc = "scrolling"
  /\ ~ScrollAgain
  /\ scroll' = NoScroll
  /\ pc' = "enumerate"
  /\ UNCHANGED << limit, cards, businessCards, index, results, origin, trace, search,
                  pending, currentPage, pageOpen, thrown, clock, panel, assembled,
                  record, score,
                  sessions, finder, displayed, configVars, managerVars, route >>

\* scraper.ts 191-210, 177: a query or evaluate of scrollResults rejects, which
\* the catch of waitForSearchResults receives
ScrollFails ==
  /\ pc \in { "scrollStart", "scrolling" }
  /\ pending' = "ScrollFailed"
  /\ scroll' = NoScroll
  /\ pc' = "checkNoResults"
  /\ UNCHANGED << limit, cards, businessCards, index, results, origin, trace, search,
                  currentPage, pageOpen, thrown, clock, panel, assembled, record, score,
                  sessions, finder, displayed, configVars, managerVars, route >>

\* the catch of waitForSearchResults rethrowing what it caught, whatever the page shows
CheckNoResults_Rethrow ==
  /\ pc = "checkNoResults"
  /\ \E indicator \in { "present", "absent", "queryFailed" } :
       /\ search' = [ search EXCEPT !.indicator = indicator ]
       /\ Throw(IF indicator = "queryFailed" THEN "QueryFailed" ELSE pending)
  /\ UNCHANGED << limit, cards, businessCards, index, results, origin, trace, pending,
                  scroll, currentPage, pageOpen, clock, panel, assembled, record, score,
                  sessions, finder, displayed, configVars, managerVars, route >>

\* the catch of waitForSearchResults reporting "no results" whenever the query
\* for the indicator answers
CheckNoResults_AlwaysNoResults ==
  /\ pc = "checkNoResults"
  /\ \E indicator \in { "present", "absent", "queryFailed" } :
       /\ search' = [ search EXCEPT !.indicator = indicator ]
       /\ Throw(IF indicator = "queryFailed" THEN "QueryFailed" ELSE "NoResults")
  /\ UNCHANGED << limit, cards, businessCards, index, results, origin, trace, pending,
                  scroll, currentPage, pageOpen, clock, panel, assembled, record, score,
                  sessions, finder, displayed, configVars, managerVars, route >>

\* scraper.ts 177-184: the catch of waitForSearchResults looks for the
\* "no results" indicator
CheckNoResults ==
  /\ pc = "checkNoResults"
  /\ \E indicator \in { "present", "absent", "queryFailed" } :
       /\ search' = [ search EXCEPT !.indicator = indicator ]
       /\ Throw(CASE indicator = "present"     -> "NoResults"
                  [] indicator = "absent"      -> pending
                  [] indicator = "queryFailed" -> "QueryFailed")
  /\ UNCHANGED << limit, cards, businessCards, index, results, origin, trace, pending,
                  scroll, currentPage, pageOpen, clock, panel, assembled, record, score,
                  sessions, finder, displayed, configVars, managerVars, route >>

\* scraper.ts 89, 224-234: n cards are on the page, in DOM order 1..n
EnumerateCards ==
  /\ pc = "enumerate"
  /\ \E n \in 0..MaxCards :
       /\ cards' = [ i \in 1..n |-> i ]
       /\ businessCards' = extractBusinessCards(cards', limit)
  /\ index' = 0
  /\ pc' = "card"
  /\ UNCHANGED << limit, results, origin, trace, search, pending, scroll, currentPage,
                  pageOpen, thrown, clock, panel, assembled, record, score,
                  sessions, finder, displayed, configVars, managerVars, route >>

EnumerateCardsFails ==
  /\ pc = "enumerate"
  /\ Throw("QueryFailed")
  /\ UNCHANGED << limit, cards, businessCards, index, results, origin, trace, search,
                  pending, scroll, currentPage, pageOpen, clock, panel, assembled,
                  record, score,
                  sessions, finder, displayed, configVars, managerVars, route >>

CurrentCard == businessCards[index + 1]

\* scraper.ts 92-102: the loop takes the next card; every card but the first
\* waits humanDelay first
NextCard ==
  /\ pc = "card"
  /\ index < Len(businessCards)
  /\ IF index > 0
       THEN /\ \E k \in Randoms :
                 trace' = Append(trace, Delayed(CurrentCard,
                                   RandomDelay(config.rateLimiting.minDelay,
                                               config.rateLimiting.maxDelay, k)))
            /\ clock' = clock + 1
       ELSE UNCHANGED << trace, clock >>
  /\ pc' = "click"
  /\ UNCHANGED << limit, cards, businessCards, index, results, origin, search, pending,
                  scroll, currentPage, pageOpen, thrown, panel, assembled, record, score,
                  sessions, finder, displayed, configVars, managerVars, route >>

\* extractBusinessDetails returns a failure result (scraper.ts 260-267), which
\* the loop pushes (scraper.ts 105-106)
PushFailure(what, message) ==
  /\ trace' = Append(trace, Event(CurrentCard, what))
  /\ results' = Append(results, Failure(message))
  /\ origin' = Append(origin, CurrentCard)
  /\ index' = index + 1
  /\ clock' = clock + 1
  /\ pc' = "card"

\* scraper.ts 242: the click is done.  The page starts to load the panel of
\* the clicked card; until that panel is there it keeps the one it showed or
\* shows none.
ClickCard ==
  /\ pc = "click"
  /\ trace' = Append(trace, Event(CurrentCard, "click"))
  /\ clock' = clock + 1
  /\ displayed' \in { displayed, 0 }
  /\ pc' = "waitPanel"
  /\ UNCHANGED << limit, cards, businessCards, index, results, origin, search, pending,
                  scroll, currentPage, pageOpen, thrown, panel, assembled, record, score,
                  sessions, finder, configVars, managerVars, route >>

\* the page: the panel of the clicked card arrives
PanelLoads ==
  /\ pc \in { "waitPanel", "extract" }
  /\ displayed # CurrentCard
  /\ displayed' = CurrentCard
  /\ UNCHANGED << pc, limit, cards, businessCards, index, results, origin, trace, search,
                  pending, scroll, currentPage, pageOpen, thrown, clock, panel, assembled,
                  record, score,
                  sessions, finder, configVars, managerVars, route >>

\* scraper.ts 242, 260-267: the click rejects
ClickCardFails ==
  /\ pc = "click"
  /\ \E e \in CardErrors : PushFailure("clickFailed", e)
  /\ UNCHANGED << limit, cards, businessCards, search, pending, scroll, currentPage,
                  pageOpen, thrown, panel, assembled, record, score,
                  sessions, finder, displayed, configVars, managerVars, route >>

\* scraper.ts 245-250: SELECTORS.details.panel matches a detail panel, whatever
\* card it shows; the fixed wait that follows is then over
PanelReady ==
  /\ pc = "waitPanel"
  /\ displayed # 0
  /\ trace' = Append(trace, Event(CurrentCard, "panelReady"))
  /\ clock' = clock + 1
  /\ pc' = "extract"
  /\ UNCHANGED << limit, cards, businessCards, index, results, origin, search, pending,
                  scroll, currentPage, pageOpen, thrown, panel, assembled, record, score,
                  sessions, finder, displayed, configVars, managerVars, route >>

\* a panel timeout escaping extractBusinessDetails and the loop
PanelTimesOut_Abort ==
  /\ pc = "waitPanel"
  /\ displayed = 0
  /\ trace' = Append(trace, Event(CurrentCard, "panelTimeout"))
  /\ Throw("PanelTimeout")
  /\ UNCHANGED << limit, cards, businessCards, index, results, origin, search, pending,
                  scroll, currentPage, pageOpen, clock, panel, assembled, record, score,
                  sessions, finder, displayed, configVars, managerVars, route >>

\* scraper.ts 245-247, 260-267: the panel does not show within the timeout
PanelTimesOut ==
  /\ pc = "waitPanel"
  /\ displayed = 0
  /\ PushFailure("panelTimeout", "PanelTimeout")
  /\ UNCHANGED << limit, cards, businessCards, search, pending, scroll, currentPage,
                  pageOpen, thrown, panel, assembled, record, score,
                  sessions, finder, displayed, configVars, managerVars, route >>

\* scraper.ts 253-259: extractBusinessData on the panel the page shows, and
\* the success result; 260-267 had extractBusinessData rejected
ExtractDetails ==
  /\ pc = "extract"
  /\ \E content \in SessionPanels :
       LET shown == PanelOf(displayed, content)
           finishedAt == clock + AssemblerAwaits
           b == extractBusinessData(shown, Uuid(CurrentCard), clock, finishedAt)
       IN  /\ panel' = shown
           /\ assembled' = b
           /\ clock' = finishedAt
           /\ IF b.t = "raise"
                THEN /\ results' = Append(results, Failure("ExtractFailed"))
                     /\ trace' = Append(trace, Event(CurrentCard, "extractFailed"))
                ELSE /\ results' = Append(results, Success(b, finishedAt - b.scrapedAt))
                     /\ trace' = Append(trace, Event(CurrentCard, "extracted"))
  /\ origin' = Append(origin, CurrentCard)
  /\ index' = index + 1
  /\ pc' = "card"
  /\ UNCHANGED << limit, cards, businessCards, search, pending, scroll, currentPage,
                  pageOpen, thrown, record, score,
                  sessions, finder, displayed, configVars, managerVars, route >>

\* scraper.ts 92, 122-129: the loop is over
\* the loop left while a card is still to be processed
LoopDone_Early ==
  /\ pc = "card"
  /\ index + 1 >= Len(businessCards)
  /\ pc' = "close"
  /\ UNCHANGED << limit, cards, businessCards, index, results, origin, trace, search,
                  pending, scroll, currentPage, pageOpen, thrown, clock, panel, assembled,
                  record, score,
                  sessions, finder, displayed, configVars, managerVars, route >>

LoopDone ==
  /\ pc = "card"
  /\ index >= Len(businessCards)
  /\ pc' = "close"
  /\ UNCHANGED << limit, cards, businessCards, index, results, origin, trace, search,
                  pending, scroll, currentPage, pageOpen, thrown, clock, panel, assembled,
                  record, score,
                  sessions, finder, displayed, configVars, managerVars, route >>

\* scraper.ts 131-134
ClosePage ==
  /\ pc = "close"
  /\ pageOpen' = FALSE
  /\ currentPage' = "null"
  /\ pc' = "returned"
  /\ UNCHANGED << limit, cards, businessCards, index, results, origin, trace, search,
                  pending, scroll, thrown, clock, panel, assembled, record, score,
                  sessions, finder, displayed, configVars, managerVars, route >>

\* scraper.ts 131, 135-138: page.close() rejects
ClosePageFails ==
  /\ pc = "close"
  /\ Throw("CloseFailed")
  /\ UNCHANGED << limit, cards, businessCards, index, results, origin, trace, search,
                  pending, scroll, currentPage, pageOpen, clock, panel, assembled,
                  record, score,
                  sessions, finder, displayed, configVars, managerVars, route >>

Next ==
  \/ \E l \in Limits : Start(l)
  \/ CreatePage \/ CreatePageFails
  \/ Goto \/ GotoFails
  \/ PerformSearch \/ PerformSearchFails
  \/ WaitForCards \/ WaitForCardsTimesOut
  \/ ScrollStart \/ ScrollStep \/ ScrollDone \/ ScrollFails
  \/ CheckNoResults
  \/ EnumerateCards \/ EnumerateCardsFails
  \/ NextCard
  \/ ClickCard \/ ClickCardFails
  \/ PanelLoads
  \/ PanelReady \/ PanelTimesOut
  \/ ExtractDetails
  \/ LoopDone
  \/ ClosePage \/ ClosePageFails

Spec == Init /\ [][Next]_vars

-----------------------------------------------------------------------------
(* Claims about the session (Spec) *)

ClickEvents   == { "click", "clickFailed" }
FailureEvents == { "clickFailed", "panelTimeout", "extractFailed" }
Finished      == pc \in { "close", "returned" }

\* C1: for a limit L >= 0 and N cards on the page, the session ends its card
\* loop, and returns, with exactly min(L, N) results, the k-th one produced
\* for the k-th card in DOM order whether it succeeded or failed; no card at
\* an index >= L (card number > L) is ever clicked.
C1_LimitAndOrder ==
  limit >= 0 =>
    /\ \A i \in 1..Len(trace) :
         trace[i].what \in ClickEvents => trace[i].card <= limit
    /\ Finished =>
         /\ Len(results) = Min(limit, Len(cards))
         /\ \A k \in 1..Len(results) : origin[k] = cards[k]

\* limit 2 on a page of 3 cards: a failure then a success, both returned
C1_Witness ==
  /\ pc = "returned"
  /\ limit = 2
  /\ Len(cards) = 3
  /\ Len(results) = 2
  /\ ~results[1].success
  /\ results[2].success

\* position of card c among the cards being processed
PositionOf(c) == CHOOSE k \in 1..Len(businessCards) : businessCards[k] = c

\* C2: a card whose click, panel wait or extraction fails gets a failure
\* result at its own position, no such failure leaves searchBusinesses as a
\* rejection, and every card up to the limit is still attempted.
C2_FailureIsolated ==
  /\ \A i \in 1..Len(trace) :
       trace[i].what \in FailureEvents =>
         LET k == PositionOf(trace[i].card)
         IN  /\ Len(results) >= k
             /\ ~results[k].success
             /\ origin[k] = trace[i].card
  /\ thrown \notin CardErrors \cup { "PanelTimeout", "ExtractFailed" }
  /\ Finished =>
       \A k \in 1..Len(businessCards) :
         \E i \in 1..Len(trace) :
           trace[i].what \in ClickEvents /\ trace[i].card = businessCards[k]

\* the panel of card 2 of 3 timed out; card 3 was still processed, and succeeded
C2_Witness ==
  /\ pc = "returned"
  /\ Len(results) = 3
  /\ \E i \in 1..Len(trace) : trace[i] = Event(2, "panelTimeout")
  /\ ~results[2].success
  /\ results[2].error = ErrorOf("PanelTimeout")
  /\ results[3].success

NoResultsCase == search.timedOut /\ search.indicator = "present"

C7_Finalized ==
  \A k \in 1..Len(results) :
    results[k].success =>
      LET b == results[k].business
      IN  /\ b.dataCompleteness = Num(1000 * calculateDataCompleteness(b))
          /\ b.lastUpdated = b.scrapedAt + AssemblerAwaits

\* C12: every Scrape Result searchBusinesses holds or returns is one of two
\* arms: success with a Record and no error, or failure with an error and a
\* defined retryable flag and no Record; never both a Record and an error,
\* never neither.
C12_TwoArms ==
  \A k \in 1..Len(results) :
    LET r == results[k]
    IN  IF r.success
          THEN /\ r.business.t = "object"
               /\ r.error.t = "undefined"
               /\ r.retryable.t = "undefined"
          ELSE /\ r.business.t = "undefined"
               /\ r.error.t = "string"
               /\ r.retryable.t = "boolean"

\* a returned sequence holding one result of each arm
C12_Witness ==
  /\ pc = "returned"
  /\ Len(results) = 2
  /\ results[1].success /\ results[1].business.t = "object"
  /\ ~results[2].success /\ results[2].retryable = Bool(TRUE)

BootstrapSteps == { "createPage", "goto", "search" }
BootstrapErrors == { "PageCreateFailed", "NavigationFailed", "SearchFailed" }

\* where a bootstrap step leads when it succeeds, and what it throws when not
BootstrapNext(step) ==
  CASE step = "createPage" -> "goto"
    [] step = "goto"       -> "search"
    [] step = "search"     -> "waitResults"
BootstrapError(step) ==
  CASE step = "createPage" -> "PageCreateFailed"
    [] step = "goto"       -> "NavigationFailed"
    [] step = "search"     -> "SearchFailed"

C13_Thrown ==
  thrown \in BootstrapErrors =>
    /\ pc = "threw"
    /\ results = << >>
    /\ trace = << >>

C13_Step ==
  /\ pc \in BootstrapSteps =>
       \/ pc' = pc
       \/ pc' = BootstrapNext(pc) /\ thrown' = "none"
       \/ pc' = "threw" /\ thrown' = BootstrapError(pc)
  /\ pc = "threw" => pc' = "threw" /\ thrown' = thrown /\ trace' = trace

\* C13: a bootstrap step (page creation, navigation, search submission) is
\* taken once: it either succeeds or searchBusinesses throws its error; after
\* the throw nothing more is done (no retry), no card was clicked and no
\* result sequence is returned.
C13_BootstrapPropagates == [](C13_Thrown) /\ [][C13_Step]_vars

\* the search submission failed on an open page and the call threw
C13_Witness ==
  /\ pc = "threw"
  /\ thrown = "SearchFailed"
  /\ pageOpen
  /\ results = << >>

\* C14: a captcha failure is never isolated into a per-card failure result
\* (it leaves searchBusinesses as a thrown error instead).
C14_CaptchaPropagates ==
  \A k \in 1..Len(results) :
    ~results[k].success => results[k].error # ErrorOf("Captcha")

\* the category a failure message falls in
Category(message) ==
  IF message \in CardErrors THEN message
  ELSE IF message = "PanelTimeout" THEN "Timeout"
  ELSE "Unknown"

\* the retry policy of a category
Retryable(category) == category # "Captcha"

\* C15: the retryable flag of every failure result is the retry policy of the
\* category of its failure: false for Captcha, true for RateLimit,
\* BotDetection, NetworkError and Timeout.
C15_RetryPolicy ==
  \A k \in 1..Len(results) :
    ~results[k].success =>
      results[k].retryable = Bool(Retryable(Category(results[k].error.message)))

\* C19: once the processing of the first card has begun, searchBusinesses
\* never throws: it ends by returning the accumulated results, whatever fails
\* afterwards, the closing of the page included.
C19_ReturnsAfterFirstCard ==
  trace # << >> => (pc # "threw" /\ thrown = "none")

\* C20 as stated: when the wait for the first card times out and no indicator
\* is present, searchBusinesses throws that timeout and returns nothing; the
\* indicator is looked for only after the wait for the first card failed.
C20_OnlyAfterTimeout ==
  /\ (search.timedOut /\ search.indicator = "absent")
       => (pc = "threw" /\ thrown = "ResultsTimeout" /\ results = << >>)
  /\ search.indicator # "unchecked" => search.timedOut

\* C20 amended: as above, but the indicator is looked for after any failure
\* inside waitForSearchResults (the wait for the first card, or the scrolling
\* that follows it), never without one; with no indicator present the call
\* throws the failure it caught.
C20_PropagatesOriginal ==
  /\ (search.timedOut /\ search.indicator = "absent")
       => (pc = "threw" /\ thrown = "ResultsTimeout" /\ results = << >>)
  /\ search.indicator = "absent"
       => (pc = "threw" /\ thrown = pending /\ results = << >>)
  /\ search.indicator # "unchecked" => pending \in { "ResultsTimeout", "ScrollFailed" }
  /\ pc \in { "enumerate", "card", "click", "waitPanel", "extract", "close", "returned" }
       => search.indicator = "unchecked"

\* the first card never showed, no indicator either: the timeout was thrown
C20_Witness ==
  /\ search.timedOut
  /\ search.indicator = "absent"
  /\ pc = "threw"
  /\ thrown = "ResultsTimeout"

-----------------------------------------------------------------------------
(* Two searchBusinesses calls overlapping on one GoogleMapsScraper
   (scraper.ts 58-139).

   Each call owns its locals (results, page, businessCards, the loop index);
   the scraper's field currentPage is the one thing both assign.  A call
   gives control away at its awaits only, so one action runs from one await
   to the next; the awaits of one card (delay, click, panel wait, field
   reads) touch that call's page only and are taken as one step.            *)

Sessions == { "A", "B" }
PageOf(s) == IF s = "A" THEN "pageA" ELSE "pageB"

\* the cards of the page of call s, in DOM order
CardsOf(s, n) == [ i \in 1..n |-> << s, i >> ]

\* the locals of a call that has not started
NotCalled ==
  [ pc |-> "idle", limit |-> 0, businessCards |-> << >>, index |-> 0,
    results |-> << >>, page |-> "none", thrown |-> "none" ]

\* a ScrapeResult, with the card it was built for in place of its content
ResultFor(card, ok) == [ success |-> ok, card |-> card ]

InitOverlap ==
  /\ SessionIdle
  /\ AssemblerIdle
  /\ RecordIdle
  /\ FinderIdle
  /\ ConfigIdle
  /\ ScraperReady
  /\ RouteIdle
  /\ sessions = [ s \in Sessions |-> NotCalled ]

overlapFrame == << pc, limit, cards, businessCards, index, results, origin, trace, search,
                  pending, scroll, pageOpen, thrown, clock, panel, assembled, record,
                  score, finder, displayed, configVars, managerVars, route >>

\* scraper.ts 58-70: the call, up to its first await
CallStart(s, l) ==
  /\ sessions[s].pc = "idle"
  /\ sessions' = [ sessions EXCEPT ![s].pc = "createPage", ![s].limit = l,
                                    ![s].results = << >> ]
  /\ UNCHANGED << overlapFrame, currentPage >>

\* scraper.ts 70-74: createPage resolves, this.currentPage = page
CallCreatePage(s) ==
  /\ sessions[s].pc = "createPage"
  /\ sessions' = [ sessions EXCEPT ![s].pc = "goto", ![s].page = "open" ]
  /\ currentPage' = PageOf(s)
  /\ UNCHANGED overlapFrame

\* scraper.ts 135-138: an awaited operation of the call rejects outside the
\* card loop, and the call rethrows
CallFails(s) ==
  /\ sessions[s].pc \in { "createPage", "goto", "search", "waitResults", "enumerate", "close" }
  /\ sessions' = [ sessions EXCEPT ![s].pc = "threw", ![s].thrown = sessions[s].pc ]
  /\ UNCHANGED << overlapFrame, currentPage >>

\* scraper.ts 74-83: goto and simulateHumanBehavior resolve
CallGoto(s) ==
  /\ sessions[s].pc = "goto"
  /\ sessions' = [ sessions EXCEPT ![s].pc = "search" ]
  /\ UNCHANGED << overlapFrame, currentPage >>

\* scraper.ts 83-86: performSearch resolves
CallPerformSearch(s) ==
  /\ sessions[s].pc = "search"
  /\ sessions' = [ sessions EXCEPT ![s].pc = "waitResults" ]
  /\ UNCHANGED << overlapFrame, currentPage >>

\* scraper.ts 86-89: waitForSearchResults resolves
CallWaitForSearchResults(s) ==
  /\ sessions[s].pc = "waitResults"
  /\ sessions' = [ sessions EXCEPT ![s].pc = "enumerate" ]
  /\ UNCHANGED << overlapFrame, currentPage >>

\* scraper.ts 89-92: extractBusinessCards resolves with the first limit of
\* the n cards on the call's page
CallExtractBusinessCards(s) ==
  /\ sessions[s].pc = "enumerate"
  /\ \E n \in 0..MaxOverlapCards :
       sessions' = [ sessions EXCEPT
                       ![s].pc = "card",
                       ![s].businessCards = extractBusinessCards(CardsOf(s, n), sessions[s].limit),
                       ![s].index = 0 ]
  /\ UNCHANGED << overlapFrame, currentPage >>

\* scraper.ts 92-120: one iteration of the card loop; extractBusinessDetails
\* gives a success or a failure result, which is pushed
CallProcessCard(s) ==
  /\ sessions[s].pc = "card"
  /\ sessions[s].index < Len(sessions[s].businessCards)
  /\ \E ok \in BOOLEAN :
       sessions' = [ sessions EXCEPT
                       ![s].results = Append(sessions[s].results,
                                             ResultFor(sessions[s].businessCards[sessions[s].index + 1], ok)),
                       ![s].index = sessions[s].index + 1 ]
  /\ UNCHANGED << overlapFrame, currentPage >>

\* scraper.ts 92, 122-131: the loop is over and page.close() is called
CallLoopDone(s) ==
  /\ sessions[s].pc = "card"
  /\ sessions[s].index >= Len(sessions[s].businessCards)
  /\ sessions' = [ sessions EXCEPT ![s].pc = "close" ]
  /\ UNCHANGED << overlapFrame, currentPage >>

\* scraper.ts 131-134: page.close() resolves, this.currentPage = null, return
CallClosePage(s) ==
  /\ sessions[s].pc = "close"
  /\ sessions' = [ sessions EXCEPT ![s].pc = "returned", ![s].page = "closed" ]
  /\ currentPage' = "null"
  /\ UNCHANGED overlapFrame

NextOverlap ==
  \E s \in Sessions :
    \/ \E l \in 0..MaxOverlapCards : CallStart(s, l)
    \/ CallCreatePage(s)
    \/ CallFails(s)
    \/ CallGoto(s)
    \/ CallPerformSearch(s)
    \/ CallWaitForSearchResults(s)
    \/ CallExtractBusinessCards(s)
    \/ CallProcessCard(s)
    \/ CallLoopDone(s)
    \/ CallClosePage(s)

SpecOverlap == InitOverlap /\ [][NextOverlap]_vars

-----------------------------------------------------------------------------
(* Claims about overlapping calls (SpecOverlap) *)

\* call s has assigned currentPage and has not yet assigned it again
HoldsPage(s) == sessions[s].pc \in { "goto", "search", "waitResults", "enumerate", "card", "close" }

\* C16: overlapping sessions share no mutable state: the results of each are
\* the results of its own cards in its DOM order, and what a session wrote is
\* not written by the other (between two assignments of a session to
\* currentPage, the field holds what that session assigned).
C16_NoSharedState ==
  \A s \in Sessions :
    /\ \A k \in 1..Len(sessions[s].results) : sessions[s].results[k].card = << s, k >>
    /\ sessions[s].pc = "returned"
         => Len(sessions[s].results) = Len(sessions[s].businessCards)
    /\ HoldsPage(s) => currentPage = PageOf(s)

-----------------------------------------------------------------------------
(* The lead finder: searchBusinessesInCity (src/unnamed/part_001 49-132).

   finder holds the locals of one call: results is
   searchResponse.data.results as the place_id of each place, index the
   position of the loop, businesses the array being built; withWebsite is
   history: how many places so far had details with a website.             *)

WaMePrefix == << "h", "t", "t", "p", "s", ":", "/", "/", "w", "a", ".", "m", "e", "/" >>
PlaceUrlPrefix == << "h", "t", "t", "p", "s", ":", "/", "/", "m", "a", "p", "s", ".", "g", "o", "o", "g", "l", "e", ".", "c", "o", "m", "/", "m", "a", "p", "s", "/", "p", "l", "a", "c", "e", "/", "?", "q", "=", "p", "l", "a", "c", "e", "_", "i", "d", ":" >>
Operational == << "O", "P", "E", "R", "A", "T", "I", "O", "N", "A", "L" >>
ClosedTemporarily == << "C", "L", "O", "S", "E", "D", "_", "T", "E", "M", "P", "O", "R", "A", "R", "I", "L", "Y" >>
Shekel == "$"          \* stands for the one-character string U+20AA

CityName == Str(<< "c" >>)
BusinessTypeName == Str(<< "r" >>)

IsDigit(c) == c \in Digits

\* '972' + rest
WithCountry(cleanPhone) ==
  IF OccursAt(cleanPhone, 1, << "9", "7", "2" >>) THEN cleanPhone
  ELSE << "9", "7", "2" >> \o SubSeq(cleanPhone, 2, Len(cleanPhone))

\* part_001 91-98
whatsappLinkOf(details) ==
  IF Truthy(details.formatted_phone_number)
    THEN LET cleanPhone == SelectSeq(details.formatted_phone_number.s, IsDigit)
         IN  Str(WaMePrefix \o WithCountry(cleanPhone))
    ELSE Str(<< >>)

\* the lead score with the phone weighted like the missing website
leadScoreOf_PhoneForty(details) ==
  (IF ~Truthy(details.website) THEN 40 ELSE 0)
  + (IF Truthy(details.formatted_phone_number) THEN 40 ELSE 0)
  + (IF Truthy(details.rating) /\ details.rating.n >= 4000 THEN 10 ELSE 0)
  + (IF Truthy(details.user_ratings_total) /\ details.user_ratings_total.n >= 50000
       THEN 10 ELSE 0)
  + (IF details.business_status = Str(Operational) THEN 10 ELSE 0)

\* part_001 84-89
leadScoreOf(details) ==
  (IF ~Truthy(details.website) THEN 40 ELSE 0)
  + (IF Truthy(details.formatted_phone_number) THEN 30 ELSE 0)
  + (IF Truthy(details.rating) /\ details.rating.n >= 4000 THEN 10 ELSE 0)
  + (IF Truthy(details.user_ratings_total) /\ details.user_ratings_total.n >= 50000
       THEN 10 ELSE 0)
  + (IF details.business_status = Str(Operational) THEN 10 ELSE 0)

\* the filter left out: every place is a lead
IsLead_Always(details) == TRUE

\* part_001 82: only businesses without website are added
IsLead(details) == ~Truthy(details.website)

\* part_001 100-117: the Business pushed for a place
LeadOf(placeId, details) ==
  [ businessName       |-> OrElse(details.name, Str(Unknown)),
    phoneNumber        |-> details.formatted_phone_number,
    internationalPhone |-> details.international_phone_number,
    address            |-> OrElse(details.formatted_address, Str(<< >>)),
    city               |-> CityName,
    hasWebsite         |-> FALSE,
    website            |-> details.website,
    rating             |-> details.rating,
    reviewCount        |-> details.user_ratings_total,
    businessType       |-> BusinessTypeName,
    placeId            |-> placeId,
    googleMapsUrl      |-> Str(PlaceUrlPrefix \o placeId.s),
    whatsappLink       |-> whatsappLinkOf(details),
    businessStatus     |-> details.business_status,
    priceLevel         |-> IF Truthy(details.price_level)
                             THEN Str([ i \in 1..(details.price_level.n \div 1000) |-> Shekel ])
                             ELSE Undefined,
    leadScore          |-> Num(1000 * leadScoreOf(details)) ]

\* what placeDetails can answer with in data.result
PlaceDetails ==
  [ name                       : { Undefined, Str(<< "n" >>) },
    formatted_phone_number     : { Undefined, Str(<< "0", "5", "-", "1" >>) },
    international_phone_number : { Undefined },
    formatted_address          : { Undefined },
    website                    : { Undefined, Str(<< "u" >>) },
    rating                     : { Undefined, Num(3900), Num(4000) },
    user_ratings_total         : { Undefined, Num(49000), Num(50000) },
    business_status            : { Str(Operational), Str(ClosedTemporarily) },
    price_level                : { Undefined, Num(2000) } ]

PlaceId(i) == Str(<< "p", DigitOf(i) >>)

\* what textSearch can answer with in data.results: places, some without place_id
RECURSIVE PlaceLists(_)
PlaceLists(n) ==
  IF n = 0 THEN { << >> }
  ELSE LET shorter == PlaceLists(n - 1)
       IN  shorter \cup { Append(l, id) : l \in { x \in shorter : Len(x) = n - 1 },
                                           id \in { Undefined, PlaceId(n) } }

InitFinder ==
  /\ SessionIdle
  /\ AssemblerIdle
  /\ RecordIdle
  /\ CallsIdle
  /\ FinderIdle
  /\ ConfigIdle
  /\ ManagerIdle
  /\ RouteIdle

finderFrame == << sessionVars, panel, assembled, record, score, sessions, displayed,
                 configVars, managerVars, route >>

\* part_001 49-59: the call, up to the text search
FinderCall ==
  /\ finder.pc = "idle"
  /\ finder' = [ finder EXCEPT !.pc = "search", !.businesses = << >> ]
  /\ UNCHANGED finderFrame

\* part_001 54-66: the text search answers
TextSearch ==
  /\ finder.pc = "search"
  /\ \/ finder' = [ finder EXCEPT !.pc = "returned" ]        \* no data.results
     \/ \E l \in PlaceLists(MaxPlaces) :
          finder' = [ finder EXCEPT !.pc = "places", !.results = l, !.index = 0 ]
  /\ UNCHANGED finderFrame

\* part_001 54, 127-131: the text search rejects; what was built is returned
TextSearchFails ==
  /\ finder.pc = "search"
  /\ finder' = [ finder EXCEPT !.pc = "returned" ]
  /\ UNCHANGED finderFrame

\* part_001 66-67: a place without place_id is passed over
SkipPlace ==
  /\ finder.pc = "places"
  /\ finder.index < Len(finder.results)
  /\ ~Truthy(finder.results[finder.index + 1])
  /\ finder' = [ finder EXCEPT !.index = finder.index + 1 ]
  /\ UNCHANGED finderFrame

\* part_001 69-79, 123-125: placeDetails rejects, or answers without result
PlaceDetailsMissing ==
  /\ finder.pc = "places"
  /\ finder.index < Len(finder.results)
  /\ Truthy(finder.results[finder.index + 1])
  /\ finder' = [ finder EXCEPT !.index = finder.index + 1 ]
  /\ UNCHANGED finderFrame

\* part_001 69-121: placeDetails answers; the place is added if it is a lead
ProcessPlace ==
  /\ finder.pc = "places"
  /\ finder.index < Len(finder.results)
  /\ Truthy(finder.results[finder.index + 1])
  /\ \E details \in PlaceDetails :
       finder' = [ finder EXCEPT
                     !.index = finder.index + 1,
                     !.withWebsite = IF Truthy(details.website)
                                       THEN finder.withWebsite + 1 ELSE finder.withWebsite,
                     !.businesses = IF IsLead(details)
                                      THEN Append(finder.businesses,
                                                  LeadOf(finder.results[finder.index + 1], details))
                                      ELSE finder.businesses ]
  /\ UNCHANGED finderFrame

\* part_001 66, 131: the loop is over
FinderReturn ==
  /\ finder.pc = "places"
  /\ finder.index >= Len(finder.results)
  /\ finder' = [ finder EXCEPT !.pc = "returned" ]
  /\ UNCHANGED finderFrame

NextFinder ==
  \/ FinderCall
  \/ TextSearch \/ TextSearchFails
  \/ SkipPlace \/ PlaceDetailsMissing \/ ProcessPlace
  \/ FinderReturn

SpecFinder == InitFinder /\ [][NextFinder]_vars

-----------------------------------------------------------------------------
(* Claims about the lead finder (SpecFinder) *)

\* C17: every business searchBusinessesInCity holds or returns has no
\* website: its website field is absent and hasWebsite is false; a place
\* whose details include a website is never added.
C17_NoWebsite ==
  /\ \A k \in 1..Len(finder.businesses) :
       /\ finder.businesses[k].website = Undefined
       /\ finder.businesses[k].hasWebsite = FALSE
  /\ Len(finder.businesses) + finder.withWebsite <= finder.index

\* the one place found has a website: nothing is returned
C17_Witness ==
  /\ finder.pc = "returned"
  /\ finder.withWebsite = 1
  /\ finder.index = 1
  /\ finder.businesses = << >>

\* C18: the leadScore of every lead is an integer between 0 and 100,
\* whatever the phone, rating, review total and business status.
C18_LeadScoreRange ==
  \A k \in 1..Len(finder.businesses) :
    LET leadScore == finder.businesses[k].leadScore
    IN  /\ leadScore.t = "number"
        /\ leadScore.n % 1000 = 0
        /\ 0 <= leadScore.n /\ leadScore.n <= 100000

\* a lead with phone, rating 4, 50 reviews and operational: the score is 100
C18_Witness ==
  /\ finder.pc = "returned"
  /\ Len(finder.businesses) = 1
  /\ finder.businesses[1].leadScore = Num(100000)
  /\ finder.businesses[1].rating = Num(4000)
  /\ finder.businesses[1].reviewCount = Num(50000)

-----------------------------------------------------------------------------
(* The card loop: delays, phases, panels *)

DelayEvents == { i \in 1..Len(trace) : trace[i].what = "delay" }
ClickAttempts == { i \in 1..Len(trace) : trace[i].what \in { "click", "clickFailed" } }

\* C21: in a session over m cards there is exactly one inter-card delay before
\* the click of each card but the first and none before the first, m - 1 in
\* all when the session is done; each delay lies in the configured range
\* minDelay..maxDelay and is over before its card is clicked.
C21_InterCardDelays ==
  /\ \A i \in DelayEvents :
       /\ trace[i].card # businessCards[1]
       /\ trace[i].ms >= config.rateLimiting.minDelay
       /\ trace[i].ms <= config.rateLimiting.maxDelay
       /\ i < Len(trace) => (i + 1) \in ClickAttempts /\ trace[i + 1].card = trace[i].card
  /\ \A i \in ClickAttempts :
       trace[i].card # businessCards[1]
         => i > 1 /\ (i - 1) \in DelayEvents /\ trace[i - 1].card = trace[i].card
  /\ pc \in { "close", "returned" } /\ businessCards # << >>
       => Cardinality(DelayEvents) = Len(businessCards) - 1

\* the same without the range: how many delays there are and where they fall
C21_DelayPlacement ==
  /\ \A i \in DelayEvents :
       /\ trace[i].card # businessCards[1]
       /\ i < Len(trace) => (i + 1) \in ClickAttempts /\ trace[i + 1].card = trace[i].card
  /\ \A i \in ClickAttempts :
       trace[i].card # businessCards[1]
         => i > 1 /\ (i - 1) \in DelayEvents /\ trace[i - 1].card = trace[i].card
  /\ pc \in { "close", "returned" } /\ businessCards # << >>
       => Cardinality(DelayEvents) = Len(businessCards) - 1

\* one step of the session is an iteration of the scroll loop
ScrollIteration == pc = "scrolling" /\ pc' = "scrolling" /\ scroll' # scroll

\* C22: scrollResults performs at most 10 iterations, each one counted; it
\* iterates only while the extent measured last differs from the one measured
\* before it, so it stops after the first iteration that leaves the extent
\* unchanged; without a results container it returns without scrolling.
C22_ScrollTerminates ==
  /\ [](scroll.scrollAttempts <= 10)
  /\ [][ /\ ScrollIteration =>
              /\ scroll.previousHeight # scroll.currentHeight
              /\ scroll.scrollAttempts < 10
              /\ scroll'.scrollAttempts = scroll.scrollAttempts + 1
              /\ scroll'.previousHeight = scroll.currentHeight
         /\ pc = "scrollStart" /\ pc' = "enumerate" => scroll' = NoScroll /\ scroll = NoScroll
         /\ pc = "scrolling" /\ pc' = "enumerate" =>
              \/ scroll.previousHeight = scroll.currentHeight
              \/ scroll.scrollAttempts = 10 ]_vars

\* the tenth iteration is over and the extent has changed in every one of them
C22_Witness ==
  /\ pc = "scrolling"
  /\ scroll.scrollAttempts = 10
  /\ scroll.previousHeight # scroll.currentHeight

\* the phase of a session a position of searchBusinesses belongs to: 1
\* navigation, 2 search submission, 3 wait for results, 4 scrolling, 5 card
\* enumeration, 6 card processing, 7 done; 8 stands for the positions at which
\* a failure is on its way to the caller
Phase(p) ==
  CASE p = "idle"                                         -> 0
    [] p \in { "createPage", "goto" }                     -> 1
    [] p = "search"                                       -> 2
    [] p = "waitResults"                                  -> 3
    [] p \in { "scrollStart", "scrolling" }               -> 4
    [] p = "enumerate"                                    -> 5
    [] p \in { "card", "click", "waitPanel", "extract" }  -> 6
    [] p \in { "close", "returned" }                      -> 7
    [] OTHER                                              -> 8   \* failing

Failing == { "checkNoResults", "threw" }

\* C23: the phases of a session follow one another in the order navigation,
\* search submission, wait for results, scrolling, card enumeration, card
\* processing, done, none skipped and none revisited; while cards are
\* processed the enumerated cards stay what they were, every card before the
\* current one has its result and no other has; the session is done only with
\* one result for each enumerated card.
C23_PhaseOrder ==
  /\ [][ /\ pc \notin Failing /\ pc' \notin Failing =>
              /\ Phase(pc') >= Phase(pc)
              /\ Phase(pc') <= Phase(pc) + 1
         /\ pc \in Failing => pc' \in Failing
         /\ Phase(pc) = 6 => businessCards' = businessCards ]_vars
  /\ [](pc \notin Failing /\ Phase(pc) = 6 =>
          /\ Len(results) = index
          /\ \A k \in 1..index : origin[k] = businessCards[k])
  /\ [](pc \notin Failing /\ Phase(pc) = 7 =>
          /\ Len(results) = Len(businessCards)
          /\ \A k \in 1..Len(results) : origin[k] = businessCards[k])

\* a session over three cards is done, the second card having failed
C23_Witness ==
  /\ pc = "returned"
  /\ Len(businessCards) = 3
  /\ Len(results) = 3
  /\ ~results[2].success
  /\ results[3].success

\* C24: the Record of the success result for a card is assembled from that
\* card's own detail panel: the page it was read from was at the address of
\* the card the result belongs to.
C24_OwnPanel ==
  \A k \in 1..Len(results) :
    results[k].success => results[k].business.googleMapsUrl = UrlOf(origin[k])

-----------------------------------------------------------------------------
(* The page reference of the scraper: overlapping calls (SpecOverlap) *)

\* call s returns in this step
Finishes(s) == sessions[s].pc = "close" /\ sessions'[s].pc = "returned"

\* C26: while calls overlap on one scraper, currentPage refers to an open page
\* whenever it is not null, it is null only when no call in progress has its
\* page open, and a call that finishes leaves the reference to the still-open
\* page of the other call as it is.
C26_PageReference ==
  /\ [](currentPage # "null" =>
          \E s \in Sessions : currentPage = PageOf(s) /\ sessions[s].page = "open")
  /\ [](currentPage = "null" => \A s \in Sessions : ~HoldsPage(s))
  /\ [][ \A s, o \in Sessions :
           Finishes(s) /\ o # s /\ HoldsPage(o) /\ currentPage = PageOf(o)
             => currentPage' = currentPage ]_vars

-----------------------------------------------------------------------------
(* The BrowserManager (browser.ts) *)

managerFrame == << sessionVars, panel, assembled, record, score, sessions, finder,
                  displayed, configVars, shutdown, route >>

\* no close() is under way
NotClosing == closing \in { "idle", "returned" }

\* launch(): the browser is started and stored
Launch ==
  /\ NotClosing
  /\ manager.browser = "null"
  /\ manager' = [ manager EXCEPT !.browser = "browser", !.connected = TRUE ]
  /\ closing' = "idle"
  /\ UNCHANGED managerFrame

\* createContext(id): throws without a browser, else stores the new context
CreateContext(id) ==
  /\ NotClosing
  /\ manager.browser # "null"
  /\ manager.connected
  /\ \A i \in 1..Len(manager.contexts) : manager.contexts[i] # id
  /\ manager' = [ manager EXCEPT !.contexts = Append(manager.contexts, id) ]
  /\ closing' = "idle"
  /\ UNCHANGED managerFrame

Without(cs, id) == LET Keep(c) == c # id IN SelectSeq(cs, Keep)

\* closeContext(id): the context closes and its key is deleted
CloseContext(id) ==
  /\ NotClosing
  /\ \E i \in 1..Len(manager.contexts) : manager.contexts[i] = id
  /\ manager' = [ manager EXCEPT !.contexts = Without(manager.contexts, id) ]
  /\ closing' = "idle"
  /\ UNCHANGED managerFrame

\* the browser process goes away
Disconnect ==
  /\ manager.browser # "null"
  /\ manager.connected
  /\ manager' = [ manager EXCEPT !.connected = FALSE ]
  /\ UNCHANGED << closing, managerFrame >>

\* close() is called: the try is entered
ManagerCloseStart ==
  /\ NotClosing
  /\ closing' = "contexts"
  /\ UNCHANGED << manager, managerFrame >>

\* the next context of the map closes and its key is deleted
ManagerCloseContext ==
  /\ closing = "contexts"
  /\ manager.contexts # << >>
  /\ manager' = [ manager EXCEPT !.contexts = Tail(manager.contexts) ]
  /\ UNCHANGED << closing, managerFrame >>

\* context.close() rejects: the catch logs it and close() returns
ManagerCloseContextFails ==
  /\ closing = "contexts"
  /\ manager.contexts # << >>
  /\ closing' = "returned"
  /\ UNCHANGED << manager, managerFrame >>

\* the loop is over: browser.close() is awaited if there is a browser
ManagerContextsClosed ==
  /\ closing = "contexts"
  /\ manager.contexts = << >>
  /\ closing' = IF manager.browser # "null" THEN "browser" ELSE "returned"
  /\ UNCHANGED << manager, managerFrame >>

\* browser.close() resolves, this.browser = null
ManagerCloseBrowser ==
  /\ closing = "browser"
  /\ manager' = [ manager EXCEPT !.browser = "null", !.connected = FALSE ]
  /\ closing' = "returned"
  /\ UNCHANGED managerFrame

\* browser.close() rejects: the catch logs it and close() returns
ManagerCloseBrowserFails ==
  /\ closing = "browser"
  /\ closing' = "returned"
  /\ UNCHANGED << manager, managerFrame >>

\* isRunning()
isRunning == manager.browser # "null" /\ manager.connected

InitManager ==
  /\ SessionIdle
  /\ AssemblerIdle
  /\ RecordIdle
  /\ CallsIdle
  /\ FinderIdle
  /\ ConfigIdle
  /\ ManagerIdle
  /\ RouteIdle

NextManager ==
  \/ Launch
  \/ \E id \in ContextIds : CreateContext(id)
  \/ \E id \in ContextIds : CloseContext(id)
  \/ Disconnect
  \/ ManagerCloseStart
  \/ ManagerCloseContext
  \/ ManagerCloseContextFails
  \/ ManagerContextsClosed
  \/ ManagerCloseBrowser
  \/ ManagerCloseBrowserFails

SpecManager == InitManager /\ [][NextManager]_vars

\* C27: BrowserManager.close() never throws, and when it has returned the
\* manager holds no browser, isRunning() is false and the context map is
\* empty, also when closing a context failed.
C27_CloseReleasesAll ==
  /\ closing # "threw"
  /\ closing = "returned" =>
       /\ manager.browser = "null"
       /\ ~isRunning
       /\ manager.contexts = << >>

-----------------------------------------------------------------------------
(* Calls one after the other on one scraper, then close() (scraper.ts 397-406) *)

InProgress(s) == sessions[s].pc \notin { "idle", "returned", "threw" }

InitSequence ==
  /\ SessionIdle
  /\ AssemblerIdle
  /\ RecordIdle
  /\ FinderIdle
  /\ ConfigIdle
  /\ RouteIdle
  /\ sessions = [ s \in Sessions |-> NotCalled ]
  /\ ScraperReady

shutdownFrame == << pc, limit, cards, businessCards, index, results, origin, trace, search,
                   pending, scroll, currentPage, pageOpen, thrown, clock, panel, assembled,
                   record, score, finder, displayed, configVars, route >>

\* the call whose page currentPage refers to
OwnerOf(page) == CHOOSE s \in Sessions : PageOf(s) = page

\* close() is called when no call is running: if (this.currentPage)
ShutdownStart ==
  /\ shutdown = "idle"
  /\ \A s \in Sessions : ~InProgress(s)
  /\ shutdown' = IF currentPage # "null" THEN "page" ELSE "context"
  /\ UNCHANGED << shutdownFrame, sessions, manager, closing >>

\* this.currentPage.close() resolves
ShutdownClosePage ==
  /\ shutdown = "page"
  /\ sessions' = [ sessions EXCEPT ![OwnerOf(currentPage)].page = "closed" ]
  /\ shutdown' = "context"
  /\ UNCHANGED << shutdownFrame, manager, closing >>

\* closeContext('main') resolves
ShutdownCloseContext ==
  /\ shutdown = "context"
  /\ manager' = [ manager EXCEPT !.contexts = Without(manager.contexts, MainContext) ]
  /\ shutdown' = "manager"
  /\ UNCHANGED << shutdownFrame, sessions, closing >>

\* currentPage.close() or closeContext('main') rejects, and so does close()
ShutdownFails ==
  /\ shutdown \in { "page", "context" }
  /\ shutdown' = "threw"
  /\ UNCHANGED << shutdownFrame, sessions, manager, closing >>

\* browserManager.close() has returned: 'Scraper closed'
ShutdownDone ==
  /\ shutdown = "manager"
  /\ closing = "returned"
  /\ shutdown' = "done"
  /\ UNCHANGED << shutdownFrame, sessions, manager, closing >>

\* a step of the call s while no other call is running and close() has not
\* been called
CallStep(s) ==
  /\ shutdown = "idle"
  /\ \A o \in Sessions \ { s } : ~InProgress(o)
  /\ \/ \E l \in 0..MaxOverlapCards : CallStart(s, l)
     \/ CallCreatePage(s)
     \/ CallFails(s)
     \/ CallGoto(s)
     \/ CallPerformSearch(s)
     \/ CallWaitForSearchResults(s)
     \/ CallExtractBusinessCards(s)
     \/ CallProcessCard(s)
     \/ CallLoopDone(s)
     \/ CallClosePage(s)

\* a step of browserManager.close() as close() awaits it
ShutdownManagerStep ==
  /\ shutdown = "manager"
  /\ \/ closing = "idle" /\ ManagerCloseStart
     \/ ManagerCloseContext
     \/ ManagerCloseContextFails
     \/ ManagerContextsClosed
     \/ ManagerCloseBrowser
     \/ ManagerCloseBrowserFails

NextSequence ==
  \/ \E s \in Sessions : CallStep(s)
  \/ ShutdownStart
  \/ ShutdownClosePage
  \/ ShutdownCloseContext
  \/ ShutdownFails
  \/ ShutdownManagerStep
  \/ ShutdownDone

SpecSequence == InitSequence /\ [][NextSequence]_vars

\* C25: after calls made one after the other, each returning or throwing, and
\* close(), every page the calls created has been closed by a close() of the
\* page: a call that returns has closed its page and left currentPage null,
\* and the page a throwing call left open is the one currentPage refers to
\* when close() runs.
C25_EveryPageClosed ==
  /\ \A s \in Sessions :
       sessions[s].pc = "returned" => sessions[s].page = "closed"
  /\ \A s \in Sessions :
       shutdown = "page" /\ sessions[s].pc = "threw" /\ sessions[s].page = "open"
         => currentPage = PageOf(s)
  /\ shutdown = "done" => \A s \in Sessions : sessions[s].page # "open"

-----------------------------------------------------------------------------
(* Request interception (browser.ts 149-177) *)

Domain_GoogleAnalytics == << "g", "o", "o", "g", "l", "e", "-", "a", "n", "a", "l", "y", "t", "i", "c", "s", ".", "c", "o", "m" >>
Domain_GoogleTagManager == << "g", "o", "o", "g", "l", "e", "t", "a", "g", "m", "a", "n", "a", "g", "e", "r", ".", "c", "o", "m" >>
Domain_Facebook == << "f", "a", "c", "e", "b", "o", "o", "k", ".", "c", "o", "m" >>
Domain_DoubleClick == << "d", "o", "u", "b", "l", "e", "c", "l", "i", "c", "k", ".", "n", "e", "t" >>
Domain_Recaptcha == << "g", "o", "o", "g", "l", "e", ".", "c", "o", "m", "/", "r", "e", "c", "a", "p", "t", "c", "h", "a" >>

Part_Https == << "h", "t", "t", "p", "s", ":", "/", "/" >>
Part_GoogleCom == << "g", "o", "o", "g", "l", "e", ".", "c", "o", "m" >>
Part_SlashRecaptcha == << "/", "r", "e", "c", "a", "p", "t", "c", "h", "a" >>
Part_SlashMaps == << "/", "m", "a", "p", "s" >>
Part_FacebookWord == << "f", "a", "c", "e", "b", "o", "o", "k" >>
Part_DotCom == << ".", "c", "o", "m" >>

blockedResources == { "image", "stylesheet", "font", "media" }
blockedDomains   == { Domain_GoogleAnalytics, Domain_GoogleTagManager, Domain_Facebook, Domain_DoubleClick, Domain_Recaptcha }

\* url.includes(domain)
Includes(url, domain) == \E i \in 1..(Len(url) + 1) : OccursAt(url, i, domain)

\* what the handler does with the route of a request, in order; it calls
\* abort and returns at once, or falls through to continue
handler_NoReturn(request) ==
  (IF request.resourceType \in blockedResources THEN << "abort" >> ELSE << >>)
    \o (IF \E domain \in blockedDomains : Includes(request.url, domain)
          THEN << "abort" >> ELSE << >>)
    \o << "continue" >>

handler(request) ==
  IF request.resourceType \in blockedResources THEN << "abort" >>
  ELSE IF \E domain \in blockedDomains : Includes(request.url, domain) THEN << "abort" >>
  ELSE << "continue" >>

\* the resource types a request can have
ResourceTypes == { "document", "stylesheet", "image", "media", "font", "script", "texttrack",
                   "xhr", "fetch", "eventsource", "websocket", "manifest", "other" }

MaxUrlParts == 2

UrlParts == blockedDomains \cup { Part_Https, Part_GoogleCom, Part_SlashRecaptcha, Part_SlashMaps, Part_FacebookWord, Part_DotCom }

RECURSIVE UrlsUpTo(_)
UrlsUpTo(n) ==
  IF n = 0 THEN { << >> }
  ELSE LET shorter == UrlsUpTo(n - 1)
       IN  shorter \cup { u \o part : u \in shorter, part \in UrlParts }

Requests == [ resourceType : ResourceTypes, url : UrlsUpTo(MaxUrlParts) ]

InitIntercept ==
  /\ SessionIdle
  /\ AssemblerIdle
  /\ RecordIdle
  /\ CallsIdle
  /\ FinderIdle
  /\ ConfigIdle
  /\ ManagerIdle
  /\ RouteIdle

\* the page issues a request and the handler registered by page.route runs on
\* it; the handler keeps nothing from one request to the next, so one request
\* is followed
Intercept ==
  /\ route.request = Undefined
  /\ \E request \in Requests :
       route' = [ request |-> request, resolved |-> handler(request) ]
  /\ UNCHANGED << sessionVars, panel, assembled, record, score, sessions, finder,
                  displayed, configVars, managerVars >>

NextIntercept == Intercept

SpecIntercept == InitIntercept /\ [][NextIntercept]_vars

\* t appears in u as a run of consecutive characters
IsSubstring(t, u) == \E i \in 0..Len(u) : \E j \in i..Len(u) : SubSeq(u, i + 1, j) = t

\* C28: the handler resolves every intercepted request exactly once, by abort
\* or by continue: by abort when the resource type is image, stylesheet, font
\* or media or the URL contains one of the five blocked domains, by continue
\* otherwise.
C28_ResolvedOnce ==
  route # [ request |-> Undefined, resolved |-> << >> ] =>
    LET blocked ==
          \/ route.request.resourceType \in { "image", "stylesheet", "font", "media" }
          \/ \E d \in { Domain_GoogleAnalytics, Domain_GoogleTagManager, Domain_Facebook,
                        Domain_DoubleClick, Domain_Recaptcha } :
               IsSubstring(d, route.request.url)
    IN  /\ Len(route.resolved) = 1
        /\ route.resolved[1] = IF blocked THEN "abort" ELSE "continue"

\* a script whose URL spells a blocked domain across two of its parts is
\* aborted, once
C28_Witness ==
  /\ route.request # Undefined
  /\ route.request.resourceType = "script"
  /\ route.request.url = Part_GoogleCom \o Part_SlashRecaptcha
  /\ route.resolved = << "abort" >>

-----------------------------------------------------------------------------
(* Loading the configuration and drawing delays from it *)

MaxDraws == 2

TextTrue      == Str(<< "t", "r", "u", "e" >>)
TextTRUE      == Str(<< "T", "R", "U", "E" >>)
TextFalse     == Str(<< "f", "a", "l", "s", "e" >>)
Text999       == Str(<< "9", "9", "9" >>)
TextNoNumber  == Str(<< "x" >>)
TextHalf      == Str(<< Space, "1", "0", "0", "1", ".", "5" >>)

BooleanTexts == { TextTrue, TextTRUE, TextFalse }
DelayTexts   == { Undefined, Text999, Text1000, Text1001, Text1002, TextNoNumber, TextHalf }

\* environments that set some of the boolean variables, all to the same text
BooleanEnvs ==
  { [ k \in EnvKeys |-> IF k \in set THEN text ELSE Undefined ] :
      set \in SUBSET BooleanKeys, text \in BooleanTexts }

\* environments that set the two delay variables
DelayEnvs == { WithDelays(min, max) : min \in DelayTexts, max \in DelayTexts }

InitConfig ==
  /\ SessionIdle
  /\ AssemblerIdle
  /\ RecordIdle
  /\ CallsIdle
  /\ FinderIdle
  /\ ManagerIdle
  /\ RouteIdle
  /\ env \in BooleanEnvs \cup DelayEnvs
  /\ config = NotLoaded
  /\ drawn = << >>

configFrame == << sessionVars, panel, assembled, record, score, sessions, finder,
                 displayed, managerVars, route >>

\* config.ts is imported: rawConfig is built from process.env and validated
LoadConfig ==
  /\ config = NotLoaded
  /\ config' = loadConfig(env)
  /\ UNCHANGED << env, drawn, configFrame >>

Drawn(by, ms) == [ by |-> by, ms |-> ms ]

\* humanDelay(config.rateLimiting.minDelay, config.rateLimiting.maxDelay), as
\* the card loop calls it
HumanDelay ==
  /\ config.t = "config"
  /\ Len(drawn) < MaxDraws
  /\ \E k \in Randoms :
       drawn' = Append(drawn, Drawn("humanDelay",
                         RandomDelay(config.rateLimiting.minDelay,
                                     config.rateLimiting.maxDelay, k)))
  /\ UNCHANGED << env, config, configFrame >>

\* getRandomDelay()
GetRandomDelay ==
  /\ config.t = "config"
  /\ Len(drawn) < MaxDraws
  /\ \E k \in Randoms :
       LET minDelay == config.rateLimiting.minDelay
           maxDelay == config.rateLimiting.maxDelay
       IN  drawn' = Append(drawn, Drawn("getRandomDelay", RandomDelay(minDelay, maxDelay, k)))
  /\ UNCHANGED << env, config, configFrame >>

NextConfig == LoadConfig \/ HumanDelay \/ GetRandomDelay

SpecConfig == InitConfig /\ [][NextConfig]_vars

\* C29: under every configuration that passes validation, each delay computed
\* by humanDelay(minDelay, maxDelay) or by getRandomDelay() is an integer d
\* with minDelay <= d <= maxDelay.
C29_DelayInRange ==
  config.t = "config" =>
    \A i \in 1..Len(drawn) :
      /\ drawn[i].ms \in Int
      /\ config.rateLimiting.minDelay <= drawn[i].ms
      /\ drawn[i].ms <= config.rateLimiting.maxDelay

\* C30: when the environment variable of a boolean option is unset, the
\* loaded configuration has the schema default of the option: true for
\* headless, stealthMode, randomizeViewport, randomizeUserAgent and
\* simulateHumanBehavior, false for proxy.rotateProxies and
\* googleMaps.useApiFallback.
C30_UnsetTakesDefault ==
  config.t = "config" =>
    /\ env["HEADLESS"] = Undefined => config.scraping.headless = TRUE
    /\ env["STEALTH_MODE"] = Undefined => config.scraping.stealthMode = TRUE
    /\ env["RANDOMIZE_VIEWPORT"] = Undefined => config.scraping.randomizeViewport = TRUE
    /\ env["RANDOMIZE_USER_AGENT"] = Undefined => config.scraping.randomizeUserAgent = TRUE
    /\ env["SIMULATE_HUMAN_BEHAVIOR"] = Undefined => config.scraping.simulateHumanBehavior = TRUE
    /\ env["ROTATE_PROXIES"] = Undefined => config.proxy.rotateProxies = FALSE
    /\ env["USE_API_FALLBACK"] = Undefined => config.googleMaps.useApiFallback = FALSE

=============================================================================
